---- MODULE Spec2Model ----
(***************************************************************************)
(* Model of the omni-core backend: the per-client keystore and the         *)
(* two-phase registration handshake (api/register.rs, services/keystore.rs)*)
(* the in-memory session store (services/session.rs), the server           *)
(* federation registry (services/server_registry.rs), the sync responder   *)
(* (api/servers.rs) and the background sync service (services/sync.rs).    *)
(***************************************************************************)
EXTENDS Integers, Sequences, FiniteSets, TLC

VARIABLES
    server_keys,     \* KeyStoreManager.server_keys : client_id -> ServerKeyEntry
    client_config,   \* KeyStoreManager.client_config : client_id -> ClientEntry
    sessions,        \* SessionStore.sessions : api_key -> Session
    servers,         \* ServerRegistry.servers : server_id -> ServerEntry
    sync_pc,         \* position of the background sync task
    sync_pending,    \* peers of the running cycle that were not contacted yet
    sync_ticks,      \* parity of the number of ticks the sync loop has taken
    keygen,          \* number of keypairs drawn from the random generator
    tokgen,          \* number of api keys drawn from the random generator
    now,             \* the clock (Utc::now), in seconds
    server_keypair,  \* AppState.server_keypair : the X25519 keypair of the server
    admin_key,       \* AdminAuth.config.admin_key
    noncegen,        \* number of nonces drawn from the random generator
    nonce_log,       \* the (key, nonce) pairs EncryptedMessage::encrypt has used
    disk,            \* the files of the stores: servers.d and the two keystore files
    inflight,        \* the calls that have started and not returned, by request
    lib_sessions,    \* omni-core-lib SessionStore.sessions : session_id -> Session
    response         \* the result of the last operation

vars == <<server_keys, client_config, sessions, servers, sync_pc, sync_pending,
          sync_ticks, keygen, tokgen, now, server_keypair, admin_key, noncegen,
          nonce_log, disk, inflight, lib_sessions, response>>

keystoreVars == <<server_keys, client_config, keygen>>
sessionVars  == <<sessions, tokgen>>
registryVars == <<servers>>
syncVars     == <<sync_pc, sync_pending, sync_ticks>>
bootVars     == <<server_keypair, admin_key>>
nonceVars    == <<noncegen, nonce_log>>
storeVars    == <<disk, inflight>>
libVars      == <<lib_sessions>>

(***************************************************************************)
(* Bounds of the model and program constants.                              *)
(***************************************************************************)
\* Option<T>: None, Some(x)
None == <<>>

Some(x) == <<x>>

IsSome(o) == o # None

Unwrap(o) == o[1]

\* client identifiers sent by clients
ClientIds == {"c1", "c2"}

\* number of keypairs the random generator hands out in one run
MaxKeys == 3

\* number of sessions created in one run
MaxSessions == 2

\* Config::session_ttl_secs, scaled down from the default 3600
SessionTtl == 2

\* width in bits of the u64 ttl_secs and of the i64 it is cast to, scaled down from 64
WordBits == 6

\* the clock stops advancing at this value
MaxTime == 4

\* server identifiers of federation peers
ServerIds == {"s1", "s2"}

\* longest server list a peer sends in one sync response
MaxList == 1

\* ServerEntry::new: the trust level of a newly created entry
DefaultTrust == 50

\* length of a hex public key accepted by register_complete
KeyLen == 64

\* HashMap::insert: add or replace the value stored under k
Put(m, k, v) == [x \in (DOMAIN m) \cup {k} |-> IF x = k THEN v ELSE m[x]]

\* the empty map
Empty == [x \in {} |-> None]

(***************************************************************************)
(* Transport encoding of the client public key (register.rs:124-139).      *)
(* A ciphertext string is represented by what base64 decoding makes of it: *)
(* either it is not base64 at all, or it decodes to a sequence of bytes.   *)
(* The sample bytes are ASCII (valid UTF-8) or 0xFF (never valid UTF-8).   *)
(***************************************************************************)
Rep(n, b) == [i \in 1..n |-> b]

\* 'a' = 97, 'b' = 98, 'g' = 103
Ciphertexts ==
    { [b64 |-> FALSE, bytes |-> <<>>],              \* not base64
      [b64 |-> TRUE,  bytes |-> <<255, 97>>],         \* bytes that are not UTF-8
      [b64 |-> TRUE,  bytes |-> Rep(KeyLen - 1, 97)], \* 63 hex characters
      [b64 |-> TRUE,  bytes |-> [Rep(KeyLen, 97) EXCEPT ![KeyLen] = 103]], \* 64 chars, one not hex
      [b64 |-> TRUE,  bytes |-> Rep(KeyLen, 97)],     \* a well-formed key
      [b64 |-> TRUE,  bytes |-> Rep(KeyLen, 98)] }    \* another well-formed key

\* EncryptedMessage {nonce, ciphertext}; the nonce is not read by register_complete
Payloads == { [nonce |-> "n", ciphertext |-> ct] : ct \in Ciphertexts }

\* base64::Engine::decode
Base64Decode(ct) ==
    IF ct.b64 THEN [ok |-> TRUE, bytes |-> ct.bytes] ELSE [ok |-> FALSE, bytes |-> <<>>]

\* String::from_utf8 on the sample bytes
FromUtf8(bytes) ==
    IF \A i \in 1..Len(bytes) : bytes[i] < 128
    THEN [ok |-> TRUE, text |-> bytes]
    ELSE [ok |-> FALSE, text |-> <<>>]

IsHexChar(b) == b \in (48..57) \cup (65..70) \cup (97..102)

\* hex::decode(s).is_ok(): even length and only hex digits
HexDecodeOk(s) == Len(s) % 2 = 0 /\ \A i \in 1..Len(s) : IsHexChar(s[i])

\* register.rs:134, mutated: only the length is checked
ValidClientPublicKey_lenonly(s) == ~(Len(s) # KeyLen)

\* register.rs:134
ValidClientPublicKey(s) == ~(Len(s) # KeyLen \/ ~HexDecodeOk(s))

\* register.rs:124-139, mutated: the key kept is cut to half its length
DecodeClientPublicKey_half(msg) ==
    LET dec == Base64Decode(msg.ciphertext) IN
    IF ~dec.ok THEN [ok |-> FALSE, key |-> <<>>]
    ELSE LET txt == FromUtf8(dec.bytes) IN
         IF ~txt.ok THEN [ok |-> FALSE, key |-> <<>>]
         ELSE IF ~ValidClientPublicKey(txt.text) THEN [ok |-> FALSE, key |-> <<>>]
         ELSE [ok |-> TRUE, key |-> SubSeq(txt.text, 1, KeyLen \div 2)]

\* register.rs:124-139: the decoded key, or the BAD_REQUEST rejection
DecodeClientPublicKey(msg) ==
    LET dec == Base64Decode(msg.ciphertext) IN
    IF ~dec.ok THEN [ok |-> FALSE, key |-> <<>>]
    ELSE LET txt == FromUtf8(dec.bytes) IN
         IF ~txt.ok THEN [ok |-> FALSE, key |-> <<>>]
         ELSE IF ~ValidClientPublicKey(txt.text) THEN [ok |-> FALSE, key |-> <<>>]
         ELSE [ok |-> TRUE, key |-> txt.text]

(***************************************************************************)
(* Cryptographic services (services/crypto.rs).  Strings are sequences of  *)
(* character codes, byte arrays are sequences of numbers below 256.        *)
(***************************************************************************)
\* length in bytes of a public key, of a secret and of a shared secret
KeyBytes == 32

\* length in bytes of a nonce
NonceBytes == 12

\* the value of a hexadecimal digit
HexVal(c) == IF c \in 48..57 THEN c - 48 ELSE IF c \in 65..70 THEN c - 55 ELSE c - 87

\* hex::decode: two digits per byte, an odd length or another character is an error
hex_decode(s) ==
    IF Len(s) % 2 # 0 \/ \E i \in 1..Len(s) : ~IsHexChar(s[i])
    THEN [ok |-> FALSE, bytes |-> <<>>]
    ELSE [ok |-> TRUE,
          bytes |-> [i \in 1..(Len(s) \div 2) |->
                        16 * HexVal(s[2 * i - 1]) + HexVal(s[2 * i])]]

\* the lower-case digit of a value below 16
HexDigit(v) == IF v < 10 THEN 48 + v ELSE 87 + v

\* hex::encode
hex_encode(bytes) ==
    [i \in 1..(2 * Len(bytes)) |->
        HexDigit(IF i % 2 = 1 THEN bytes[(i + 1) \div 2] \div 16
                 ELSE bytes[i \div 2] % 16)]

\* parse_public_key, mutated: the decoded bytes are not required to fill the array
parse_public_key_anylen(hex_key) ==
    LET dec == hex_decode(hex_key) IN
    IF ~dec.ok THEN [ok |-> FALSE, error |-> "InvalidPublicKey", bytes |-> <<>>]
    ELSE [ok |-> TRUE, error |-> "", bytes |-> dec.bytes]

\* parse_public_key
parse_public_key(hex_key) ==
    LET dec == hex_decode(hex_key) IN
    IF ~dec.ok THEN [ok |-> FALSE, error |-> "InvalidPublicKey", bytes |-> <<>>]
    ELSE IF Len(dec.bytes) # KeyBytes
    THEN [ok |-> FALSE, error |-> "InvalidPublicKey", bytes |-> <<>>]
    ELSE [ok |-> TRUE, error |-> "", bytes |-> dec.bytes]

\* the character of a 6-bit value in the standard base64 alphabet
B64Char(v) ==
    IF v < 26 THEN 65 + v ELSE IF v < 52 THEN 71 + v ELSE IF v < 62 THEN v - 4
    ELSE IF v = 62 THEN 43 ELSE 47

\* the 6-bit value of a character of the alphabet, -1 for any other character
B64Val(c) ==
    IF c \in 65..90 THEN c - 65 ELSE IF c \in 97..122 THEN c - 71
    ELSE IF c \in 48..57 THEN c + 4 ELSE IF c = 43 THEN 62 ELSE IF c = 47 THEN 63
    ELSE 0 - 1

\* base64 STANDARD encode: three bytes per four characters, padded with '='
b64_encode(bytes) ==
    LET n == Len(bytes)
        byte(i) == IF i <= n THEN bytes[i] ELSE 0
        word(g) == byte(3 * g - 2) * 65536 + byte(3 * g - 1) * 256 + byte(3 * g)
        inGroup(g) == IF n - 3 * (g - 1) >= 3 THEN 3 ELSE n - 3 * (g - 1)
        ch(g, j) == IF j > inGroup(g) THEN 61
                    ELSE B64Char((word(g) \div (64 ^ (3 - j))) % 64)
    IN [k \in 1..(4 * ((n + 2) \div 3)) |-> ch((k - 1) \div 4 + 1, (k - 1) % 4)]

\* base64 STANDARD decode: the length is a multiple of four, '=' only pads the end,
\* and the bits that are cut off are zero
b64_decode(s) ==
    LET n == Len(s)
        pad == IF n > 0 /\ s[n] = 61 THEN (IF n > 1 /\ s[n - 1] = 61 THEN 2 ELSE 1) ELSE 0
        val(k) == IF k > n - pad THEN 0 ELSE B64Val(s[k])
        word(g) == val(4 * g - 3) * 262144 + val(4 * g - 2) * 4096
                   + val(4 * g - 1) * 64 + val(4 * g)
        cut == IF pad = 1 THEN val(n - 1) % 4 ELSE IF pad = 2 THEN val(n - 2) % 16 ELSE 0
    IN
    IF n % 4 # 0 \/ (\E k \in 1..(n - pad) : B64Val(s[k]) < 0) \/ cut # 0
    THEN [ok |-> FALSE, bytes |-> <<>>]
    ELSE [ok |-> TRUE,
          bytes |-> [i \in 1..(3 * (n \div 4) - pad) |->
                        (word((i - 1) \div 3 + 1) \div (256 ^ (2 - ((i - 1) % 3)))) % 256]]

\* the sum of the numbers of a sequence
RECURSIVE SumSeq(_)
SumSeq(s) == IF s = <<>> THEN 0 ELSE s[1] + SumSeq(Tail(s))

\* b to the power e modulo p
RECURSIVE ModExp(_, _, _)
ModExp(b, e, p) == IF e = 0 THEN 1 % p ELSE (b * ModExp(b, e - 1, p)) % p

\* X25519 is computed in a small group here: the powers of g modulo the prime p stand
\* for the multiples of the base point of Curve25519
Group == [p |-> 23, g |-> 5]

\* the clamping of a secret scalar: the top bit is set and the low bit is cleared
Clamp(secret) == 8 + 2 * ((secret \div 2) % 4)

\* a group element as the 32 bytes of a key, little-endian
ToBytes(x) == [i \in 1..KeyBytes |-> IF i = 1 THEN x ELSE 0]

\* PublicKey::from([u8; 32]): any 32 bytes are taken, reduced into the field
FromBytes(bytes) == bytes[1] % Group.p

\* PublicKey::from(&secret)
PublicKeyFromSecret(secret) == ToBytes(ModExp(Group.g, Clamp(secret), Group.p))

\* diffie_hellman(&public).to_bytes()
diffie_hellman(secret, public) ==
    ToBytes(ModExp(FromBytes(public), Clamp(secret), Group.p))

\* the secrets the random generator hands out
SecretSeeds == {1, 2, 4, 7}

\* ServerKeyPair::generate with the secret drawn from the random generator
ServerKeyPairGenerate(secret) == [secret |-> secret, public |-> PublicKeyFromSecret(secret)]

\* ClientKeyPair::generate with the secret drawn from the random generator
ClientKeyPairGenerate(secret) == [secret |-> secret, public |-> PublicKeyFromSecret(secret)]

\* ServerKeyPair::public_key_hex
public_key_hex(keypair) == hex_encode(keypair.public)

\* ServerKeyPair::derive_shared_secret, mutated: the peer's key is taken as the
\* exponent and the own secret as the base
server_derive_shared_secret_swapped(keypair, client_public) ==
    ToBytes(ModExp(Clamp(keypair.secret), FromBytes(client_public), Group.p))

\* ServerKeyPair::derive_shared_secret
server_derive_shared_secret(keypair, client_public) ==
    diffie_hellman(keypair.secret, client_public)

\* ClientKeyPair::derive_shared_secret
client_derive_shared_secret(keypair, server_public) ==
    diffie_hellman(keypair.secret, server_public)

\* the keystream byte at position i: stands for the ChaCha20 block function
Keystream(key, nonce, i) == (SumSeq(key) + 3 * SumSeq(nonce) + i) % 256

\* the authentication tag over key, nonce and encrypted bytes: stands for Poly1305
Tag(key, nonce, body) ==
    <<SumSeq(key) % 256, SumSeq(nonce) % 256, SumSeq(body) % 256, Len(body) % 256>>

\* cipher.encrypt(nonce, plaintext): the encrypted bytes followed by the tag
cipher_encrypt(key, nonce, plaintext) ==
    LET body == [i \in 1..Len(plaintext) |->
                    (plaintext[i] + Keystream(key, nonce, i)) % 256]
    IN body \o Tag(key, nonce, body)

\* cipher.decrypt(nonce, ciphertext): the tag is verified before anything is released
cipher_decrypt(key, nonce, ciphertext) ==
    LET taglen == Len(Tag(key, nonce, <<>>))
        body == SubSeq(ciphertext, 1, Len(ciphertext) - taglen)
        tag == SubSeq(ciphertext, Len(ciphertext) - taglen + 1, Len(ciphertext))
    IN
    IF Len(ciphertext) < taglen \/ tag # Tag(key, nonce, body)
    THEN [ok |-> FALSE, plaintext |-> <<>>]
    ELSE [ok |-> TRUE,
          plaintext |-> [i \in 1..Len(body) |->
                            (body[i] + 256 - Keystream(key, nonce, i)) % 256]]

\* rand::thread_rng().fill_bytes(&mut nonce_bytes): the n-th draw of the generator
fill_bytes(n) == [i \in 1..NonceBytes |-> IF i = 1 THEN n % 256 ELSE 0]

\* EncryptedMessage::encrypt up to the draw of the nonce: the envelope for given
\* nonce bytes.  cipher.encrypt fails only for a plaintext beyond the cipher's
\* length limit, which no request body reaches
seal(plaintext, shared_secret, nonce_bytes) ==
    IF Len(shared_secret) # KeyBytes
    THEN [ok |-> FALSE, error |-> "InvalidKey", message |-> None]
    ELSE [ok |-> TRUE, error |-> "",
          message |-> Some([nonce |-> b64_encode(nonce_bytes),
                            ciphertext |->
                                b64_encode(cipher_encrypt(shared_secret, nonce_bytes,
                                                          plaintext))])]

\* EncryptedMessage::encrypt, mutated: the nonce bytes are left at zero
encrypt_zero_nonce(plaintext, shared_secret, n) ==
    seal(plaintext, shared_secret, [i \in 1..NonceBytes |-> 0])

\* EncryptedMessage::encrypt with the n-th draw of the random generator
encrypt(plaintext, shared_secret, n) == seal(plaintext, shared_secret, fill_bytes(n))

\* EncryptedMessage::decrypt, mutated: the bytes are released without the tag check
decrypt_unchecked(message, shared_secret) ==
    LET nonce == b64_decode(message.nonce)
        ciphertext == b64_decode(message.ciphertext)
        taglen == Len(Tag(shared_secret, <<>>, <<>>))
    IN
    IF ~nonce.ok \/ Len(nonce.bytes) # NonceBytes
    THEN [ok |-> FALSE, error |-> "InvalidNonce", plaintext |-> <<>>]
    ELSE IF ~ciphertext.ok
    THEN [ok |-> FALSE, error |-> "InvalidCiphertext", plaintext |-> <<>>]
    ELSE IF Len(shared_secret) # KeyBytes
    THEN [ok |-> FALSE, error |-> "InvalidKey", plaintext |-> <<>>]
    ELSE IF Len(ciphertext.bytes) < taglen
    THEN [ok |-> FALSE, error |-> "DecryptionFailed", plaintext |-> <<>>]
    ELSE [ok |-> TRUE, error |-> "",
          plaintext |-> [i \in 1..(Len(ciphertext.bytes) - taglen) |->
                            (ciphertext.bytes[i] + 256
                               - Keystream(shared_secret, nonce.bytes, i)) % 256]]

\* EncryptedMessage::decrypt
decrypt(message, shared_secret) ==
    LET nonce == b64_decode(message.nonce)
        ciphertext == b64_decode(message.ciphertext)
    IN
    IF ~nonce.ok \/ Len(nonce.bytes) # NonceBytes
    THEN [ok |-> FALSE, error |-> "InvalidNonce", plaintext |-> <<>>]
    ELSE IF ~ciphertext.ok
    THEN [ok |-> FALSE, error |-> "InvalidCiphertext", plaintext |-> <<>>]
    ELSE IF Len(shared_secret) # KeyBytes
    THEN [ok |-> FALSE, error |-> "InvalidKey", plaintext |-> <<>>]
    ELSE LET opened == cipher_decrypt(shared_secret, nonce.bytes, ciphertext.bytes) IN
         IF ~opened.ok
         THEN [ok |-> FALSE, error |-> "DecryptionFailed", plaintext |-> <<>>]
         ELSE [ok |-> TRUE, error |-> "", plaintext |-> opened.plaintext]

\* Display of CryptoError: the text of e.to_string()
to_string(error) ==
    CASE error = "InvalidKey" -> "Invalid key"
      [] error = "InvalidNonce" -> "Invalid nonce"
      [] error = "InvalidCiphertext" -> "Invalid ciphertext"
      [] error = "EncryptionFailed" -> "Encryption failed"
      [] error = "DecryptionFailed" -> "Decryption failed"
      [] error = "InvalidPublicKey" -> "Invalid public key"

(***************************************************************************)
(* Admin authentication (services/admin.rs).                               *)
(***************************************************************************)
\* AdminConfig::generate: the key is "admin_" followed by the n-th draw of the
\* random generator
AdminConfigGenerate(n) == [admin_key |-> <<"admin_", n>>]

\* AdminAuth::verify
admin_verify(config_admin_key, key) == config_admin_key = key

(***************************************************************************)
(* Keystore (services/keystore.rs).                                        *)
(***************************************************************************)
\* ServerKeyEntry::generate: the n-th keypair of the random generator
ServerKeyEntryGenerate(client_id, n, t) ==
    [client_id |-> client_id, public_key |-> n, secret_key |-> n, created_at |-> t]

\* ServerKeysStore::add_key, mutated: an entry that is already stored is kept
add_key_keep(keys, entry) ==
    IF entry.client_id \in DOMAIN keys THEN keys ELSE Put(keys, entry.client_id, entry)

\* ServerKeysStore::add_key
add_key(keys, entry) == Put(keys, entry.client_id, entry)

\* ClientConfigStore::add_client, mutated: the entry of a registered client is kept
add_client_keep(clients, entry) ==
    IF entry.client_id \in DOMAIN clients THEN clients ELSE Put(clients, entry.client_id, entry)

\* ClientConfigStore::add_client
add_client(clients, entry) == Put(clients, entry.client_id, entry)

\* KeyStoreManager::get_server_key, mutated: a default entry for an unknown client
get_server_key_default(keys, client_id) ==
    IF client_id \in DOMAIN keys THEN Some(keys[client_id])
    ELSE Some(ServerKeyEntryGenerate(client_id, 0, 0))

\* KeyStoreManager::get_server_key
get_server_key(keys, client_id) ==
    IF client_id \in DOMAIN keys THEN Some(keys[client_id]) ELSE None

\* KeyStoreManager::get_client, mutated: the lookup misses every entry
get_client_miss(clients, client_id) == None

\* KeyStoreManager::get_client
get_client(clients, client_id) ==
    IF client_id \in DOMAIN clients THEN Some(clients[client_id]) ELSE None

\* KeyStoreManager::register_client, mutated: the server key is not looked up
register_client_nokey(keys, clients, client_id, client_public_key, t) ==
    LET entry == [client_id |-> client_id,
                  client_public_key |-> client_public_key,
                  server_key_id |-> client_id,
                  registered_at |-> t,
                  last_seen |-> Some(t)]
    IN [entry |-> Some(entry), clients |-> add_client(clients, entry)]

\* KeyStoreManager::register_client: the entry it returns (None without a server key)
\* and the client store afterwards
register_client(keys, clients, client_id, client_public_key, t) ==
    IF get_server_key(keys, client_id) = None
    THEN [entry |-> None, clients |-> clients]
    ELSE LET entry == [client_id |-> client_id,
                       client_public_key |-> client_public_key,
                       server_key_id |-> client_id,
                       registered_at |-> t,
                       last_seen |-> Some(t)]
         IN [entry |-> Some(entry), clients |-> add_client(clients, entry)]

(***************************************************************************)
(* Session store (services/session.rs).                                    *)
(***************************************************************************)
\* the values of a u64
U64 == 0..(2^WordBits - 1)

\* `x as i64` of a u64 x: the same bits read as a signed number
AsI64(x) == IF x >= 2^(WordBits - 1) THEN x - 2^WordBits ELSE x

\* chrono::Duration::seconds and DateTime + Duration panic outside a range that is
\* narrower than the i64; the range is scaled with the word
DurationMax == 2^(WordBits - 1) - 2

\* Session::new panics when the duration cannot be built or added
SessionNewPanics(ttl_secs) ==
    AsI64(ttl_secs) < 0 - DurationMax \/ AsI64(ttl_secs) > DurationMax

\* Session::new with the n-th random api key
SessionNew(n, ttl_secs, t) ==
    [id |-> n, api_key |-> n, created_at |-> t, expires_at |-> t + AsI64(ttl_secs),
     last_seen |-> t]

\* SessionStore::create, mutated: the new session is the only one kept
SessionCreate_only(store, n, ttl_secs, t) == Put(Empty, n, SessionNew(n, ttl_secs, t))

\* SessionStore::create: the store afterwards
SessionCreate(store, n, ttl_secs, t) == Put(store, n, SessionNew(n, ttl_secs, t))

\* Session::is_expired read at clock value t
is_expired(session, t) == t > session.expires_at

\* Session::touch, mutated: the expiry slides with the use of the session
touch_sliding(session, t) ==
    [session EXCEPT !.last_seen = t, !.expires_at = t + SessionTtl]

\* Session::touch at clock value t
touch(session, t) == [session EXCEPT !.last_seen = t]

\* HashMap::remove: the map without the key k
Remove(m, k) == [x \in (DOMAIN m) \ {k} |-> m[x]]

\* SessionStore::get
session_get(store, api_key) ==
    IF api_key \in DOMAIN store THEN Some(store[api_key]) ELSE None

\* SessionStore::validate, mutated: the expiry of the stored session is not checked
session_validate_noexpiry(store, api_key, t1, t2) ==
    IF api_key \in DOMAIN store
    THEN [session |-> Some(touch(store[api_key], t2)),
          sessions |-> [store EXCEPT ![api_key] = touch(store[api_key], t2)]]
    ELSE [session |-> None, sessions |-> store]

\* SessionStore::validate: the clock is read twice, by is_expired (t1) and by touch (t2)
session_validate(store, api_key, t1, t2) ==
    IF api_key \in DOMAIN store
    THEN IF is_expired(store[api_key], t1)
         THEN [session |-> None, sessions |-> Remove(store, api_key)]
         ELSE [session |-> Some(touch(store[api_key], t2)),
               sessions |-> [store EXCEPT ![api_key] = touch(store[api_key], t2)]]
    ELSE [session |-> None, sessions |-> store]

\* SessionStore::revoke, mutated: the session is reported as removed but kept
session_revoke_keep(store, api_key) ==
    [removed |-> api_key \in DOMAIN store, sessions |-> store]

\* SessionStore::revoke
session_revoke(store, api_key) ==
    [removed |-> api_key \in DOMAIN store, sessions |-> Remove(store, api_key)]

\* SessionStore::cleanup_expired, mutated: a session is swept from the instant of
\* its expires_at on
session_cleanup_expired_early(store, t) ==
    LET kept == { k \in DOMAIN store : ~(t >= store[k].expires_at) } IN
    [removed |-> Cardinality(DOMAIN store) - Cardinality(kept),
     sessions |-> [k \in kept |-> store[k]]]

\* SessionStore::cleanup_expired: retain the sessions that are not expired, return
\* the difference of the lengths
session_cleanup_expired(store, t) ==
    LET kept == { k \in DOMAIN store : ~is_expired(store[k], t) } IN
    [removed |-> Cardinality(DOMAIN store) - Cardinality(kept),
     sessions |-> [k \in kept |-> store[k]]]

(***************************************************************************)
(* Registration handshake (api/register.rs).                               *)
(***************************************************************************)
\* POST /register/init, mutated: the check for a registered client is missing
register_init_nocheck(client_id) ==
    /\ keygen < MaxKeys
    /\ LET entry == ServerKeyEntryGenerate(client_id, keygen + 1, now) IN
       /\ server_keys' = add_key(server_keys, entry)
       /\ keygen' = keygen + 1
       /\ response' = [op |-> "register_init", client_id |-> client_id,
                       status |-> "OK", server_public_key |-> entry.public_key]
    /\ UNCHANGED <<client_config, sessionVars, registryVars, syncVars, now, bootVars, libVars, nonceVars, storeVars>>

\* POST /register/init
register_init(client_id) ==
    IF get_client(client_config, client_id) # None
    THEN /\ response' = [op |-> "register_init", client_id |-> client_id,
                         status |-> "CONFLICT"]
         /\ UNCHANGED <<keystoreVars, sessionVars, registryVars, syncVars, now, bootVars, libVars, nonceVars, storeVars>>
    ELSE /\ keygen < MaxKeys
         /\ LET entry == ServerKeyEntryGenerate(client_id, keygen + 1, now) IN
            /\ server_keys' = add_key(server_keys, entry)
            /\ keygen' = keygen + 1
            /\ response' = [op |-> "register_init", client_id |-> client_id,
                            status |-> "OK", server_public_key |-> entry.public_key]
         /\ UNCHANGED <<client_config, sessionVars, registryVars, syncVars, now, bootVars, libVars, nonceVars, storeVars>>

\* POST /register/complete, mutated: the payload is validated before the server
\* key is looked up
register_complete_validate_first(client_id, msg) ==
    LET server_key == get_server_key(server_keys, client_id)
        dec == DecodeClientPublicKey(msg)
        reg == register_client(server_keys, client_config, client_id, dec.key, now)
        fail(status) ==
            /\ response' = [op |-> "register_complete", client_id |-> client_id,
                            status |-> status]
            /\ UNCHANGED <<keystoreVars, sessionVars, registryVars, syncVars, now, bootVars, libVars, nonceVars, storeVars>>
    IN
    IF ~dec.ok THEN fail("BAD_REQUEST")
    ELSE IF server_key = None THEN fail("NOT_FOUND")
    ELSE IF reg.entry = None THEN fail("INTERNAL_SERVER_ERROR")
    ELSE /\ tokgen < MaxSessions
         /\ client_config' = reg.clients
         /\ sessions' = SessionCreate(sessions, tokgen + 1, SessionTtl, now)
         /\ tokgen' = tokgen + 1
         /\ response' = [op |-> "register_complete", client_id |-> client_id,
                         status |-> "OK", registered |-> TRUE, api_key |-> tokgen + 1]
         /\ UNCHANGED <<server_keys, keygen, registryVars, syncVars, now, bootVars, libVars, nonceVars, storeVars>>

\* POST /register/complete
register_complete(client_id, msg) ==
    LET server_key == get_server_key(server_keys, client_id)
        dec == DecodeClientPublicKey(msg)
        reg == register_client(server_keys, client_config, client_id, dec.key, now)
        fail(status) ==
            /\ response' = [op |-> "register_complete", client_id |-> client_id,
                            status |-> status]
            /\ UNCHANGED <<keystoreVars, sessionVars, registryVars, syncVars, now, bootVars, libVars, nonceVars, storeVars>>
    IN
    IF server_key = None THEN fail("NOT_FOUND")
    ELSE IF ~dec.ok THEN fail("BAD_REQUEST")
    ELSE IF reg.entry = None THEN fail("INTERNAL_SERVER_ERROR")
    ELSE /\ tokgen < MaxSessions
         /\ client_config' = reg.clients
         /\ sessions' = SessionCreate(sessions, tokgen + 1, SessionTtl, now)
         /\ tokgen' = tokgen + 1
         /\ response' = [op |-> "register_complete", client_id |-> client_id,
                         status |-> "OK", registered |-> TRUE, api_key |-> tokgen + 1]
         /\ UNCHANGED <<server_keys, keygen, registryVars, syncVars, now, bootVars, libVars, nonceVars, storeVars>>

(***************************************************************************)
(* Server federation registry (services/server_registry.rs).               *)
(* Every write of an entry to its file may fail; the outcome of each write *)
(* is an input (save_ok) of the operation that performs it.                *)
(***************************************************************************)
\* ServerEntry::new
ServerEntryNew(server_id, name, public_url, public_key, t) ==
    [server_id |-> server_id, name |-> name, description |-> None,
     public_url |-> public_url, public_key |-> public_key,
     is_public |-> TRUE, is_authenticated |-> FALSE,
     discovered_at |-> t, last_seen |-> None, last_sync |-> None,
     version |-> None, trust_level |-> DefaultTrust]

\* ServerRegistry::register: Err and no insertion when the entry cannot be saved
registry_register(current, entry, save_ok) ==
    IF ~save_ok THEN [ok |-> FALSE, servers |-> current]
    ELSE [ok |-> TRUE, servers |-> Put(current, entry.server_id, entry)]

\* ServerRegistry::get
registry_get(current, server_id) ==
    IF server_id \in DOMAIN current THEN Some(current[server_id]) ELSE None

\* ServerRegistry::list_all (the order of the Vec is the HashMap's, unspecified)
list_all(current) == { current[s] : s \in DOMAIN current }

\* ServerRegistry::list_public
list_public(current) == { current[s] : s \in { x \in DOMAIN current : current[x].is_public } }

\* ServerRegistry::list_authenticated
list_authenticated(current) ==
    { current[s] : s \in { x \in DOMAIN current : current[x].is_authenticated } }

\* ServerRegistry::set_authenticated: the entry is changed in place before it is saved
registry_set_authenticated(current, server_id, authenticated, save_ok, t) ==
    IF server_id \in DOMAIN current
    THEN [ok |-> save_ok,
          servers |-> [current EXCEPT ![server_id].is_authenticated = authenticated,
                                      ![server_id].last_seen = Some(t)]]
    ELSE [ok |-> TRUE, servers |-> current]

\* ServerRegistry::mark_synced, mutated: the entry is touched as well
registry_mark_synced_touch(current, server_id, save_ok, t) ==
    IF server_id \in DOMAIN current
    THEN [ok |-> save_ok,
          servers |-> [current EXCEPT ![server_id].last_sync = Some(t),
                                      ![server_id].last_seen = Some(t)]]
    ELSE [ok |-> TRUE, servers |-> current]

\* ServerRegistry::mark_synced
registry_mark_synced(current, server_id, save_ok, t) ==
    IF server_id \in DOMAIN current
    THEN [ok |-> save_ok, servers |-> [current EXCEPT ![server_id].last_sync = Some(t)]]
    ELSE [ok |-> TRUE, servers |-> current]

\* the loop of ServerRegistry::merge_from from position i on; saves[i] is the outcome
\* of server.save() for list[i] when it is attempted
RECURSIVE merge_loop(_, _, _, _, _)
merge_loop(current, list, saves, i, added) ==
    IF i > Len(list) THEN [servers |-> current, added |-> added]
    ELSE IF list[i].server_id \notin DOMAIN current /\ saves[i]
         THEN merge_loop(Put(current, list[i].server_id, list[i]), list, saves, i + 1, added + 1)
         ELSE merge_loop(current, list, saves, i + 1, added)

\* ServerRegistry::merge_from
merge_from(current, list, saves) == merge_loop(current, list, saves, 1, 0)

(***************************************************************************)
(* Federation endpoints (api/servers.rs).                                  *)
(***************************************************************************)
\* the PublicServerInfo built from an entry
PublicServerInfo(e) ==
    [server_id |-> e.server_id, name |-> e.name, description |-> e.description,
     public_url |-> e.public_url, public_key |-> e.public_key,
     version |-> IF e.version = None THEN "" ELSE Unwrap(e.version)]

\* RegisterServerRequest values sent by peers
RegisterServerRequests ==
    { [server_id |-> s, name |-> "peer", description |-> None,
       public_url |-> "https://peer", public_key |-> "pk", is_public |-> p] :
      s \in ServerIds, p \in BOOLEAN }

\* SyncRequest values sent by peers
SyncRequests ==
    { [requesting_server_id |-> s, requesting_server_key |-> k] :
      s \in ServerIds, k \in {"pk", "other"} }

\* POST /servers/register
register_server(req, save_ok) ==
    LET entry == [ServerEntryNew(req.server_id, req.name, req.public_url, req.public_key, now)
                    EXCEPT !.description = req.description, !.is_public = req.is_public]
        r == registry_register(servers, entry, save_ok)
    IN /\ servers' = r.servers
       /\ response' = IF r.ok
                      THEN [op |-> "register_server", server_id |-> req.server_id,
                            status |-> "OK", success |-> TRUE]
                      ELSE [op |-> "register_server", server_id |-> req.server_id,
                            status |-> "INTERNAL_SERVER_ERROR"]
       /\ UNCHANGED <<keystoreVars, sessionVars, syncVars, now, bootVars, libVars, nonceVars, storeVars>>

\* POST /servers/sync, mutated: the key of the request is compared with the
\* public_key stored for the requester
sync_servers_keycheck(req, save_ok) ==
    LET server == registry_get(servers, req.requesting_server_id)
        reject ==
            /\ response' = [op |-> "sync_servers",
                            requesting_server_id |-> req.requesting_server_id,
                            status |-> "UNAUTHORIZED"]
            /\ UNCHANGED <<keystoreVars, sessionVars, registryVars, syncVars, now, bootVars, libVars, nonceVars, storeVars>>
    IN
    IF server = None THEN reject
    ELSE IF ~Unwrap(server).is_authenticated THEN reject
    ELSE IF Unwrap(server).public_key # req.requesting_server_key THEN reject
    ELSE LET public_servers == { PublicServerInfo(e) : e \in list_public(servers) } IN
         /\ servers' = registry_mark_synced(servers, req.requesting_server_id, save_ok, now).servers
         /\ response' = [op |-> "sync_servers",
                         requesting_server_id |-> req.requesting_server_id,
                         status |-> "OK", servers |-> public_servers,
                         total |-> Cardinality(public_servers)]
         /\ UNCHANGED <<keystoreVars, sessionVars, syncVars, now, bootVars, libVars, nonceVars, storeVars>>

\* POST /servers/sync, mutated: a requester that is known is marked as synced
\* before its authentication is looked at
sync_servers_mark_first(req, save_ok) ==
    LET server == registry_get(servers, req.requesting_server_id)
        marked == registry_mark_synced(servers, req.requesting_server_id, save_ok, now).servers
    IN
    /\ servers' = marked
    /\ response' = IF server = None \/ ~Unwrap(server).is_authenticated
                   THEN [op |-> "sync_servers",
                         requesting_server_id |-> req.requesting_server_id,
                         status |-> "UNAUTHORIZED"]
                   ELSE LET public_servers == { PublicServerInfo(e) : e \in list_public(servers) } IN
                        [op |-> "sync_servers",
                         requesting_server_id |-> req.requesting_server_id,
                         status |-> "OK", servers |-> public_servers,
                         total |-> Cardinality(public_servers)]
    /\ UNCHANGED <<keystoreVars, sessionVars, syncVars, now, bootVars, libVars, nonceVars, storeVars>>

\* POST /servers/sync, mutated: the is_authenticated check is missing
sync_servers_nocheck(req, save_ok) ==
    LET server == registry_get(servers, req.requesting_server_id) IN
    IF server = None
    THEN /\ response' = [op |-> "sync_servers",
                         requesting_server_id |-> req.requesting_server_id,
                         status |-> "UNAUTHORIZED"]
         /\ UNCHANGED <<keystoreVars, sessionVars, registryVars, syncVars, now, bootVars, libVars, nonceVars, storeVars>>
    ELSE LET public_servers == { PublicServerInfo(e) : e \in list_public(servers) } IN
         /\ servers' = registry_mark_synced(servers, req.requesting_server_id, save_ok, now).servers
         /\ response' = [op |-> "sync_servers",
                         requesting_server_id |-> req.requesting_server_id,
                         status |-> "OK", servers |-> public_servers,
                         total |-> Cardinality(public_servers)]
         /\ UNCHANGED <<keystoreVars, sessionVars, syncVars, now, bootVars, libVars, nonceVars, storeVars>>

\* POST /servers/sync
sync_servers(req, save_ok) ==
    LET server == registry_get(servers, req.requesting_server_id)
        reject ==
            /\ response' = [op |-> "sync_servers",
                            requesting_server_id |-> req.requesting_server_id,
                            status |-> "UNAUTHORIZED"]
            /\ UNCHANGED <<keystoreVars, sessionVars, registryVars, syncVars, now, bootVars, libVars, nonceVars, storeVars>>
    IN
    IF server = None THEN reject
    ELSE IF ~Unwrap(server).is_authenticated THEN reject
    ELSE LET public_servers == { PublicServerInfo(e) : e \in list_public(servers) } IN
         /\ servers' = registry_mark_synced(servers, req.requesting_server_id, save_ok, now).servers
         /\ response' = [op |-> "sync_servers",
                         requesting_server_id |-> req.requesting_server_id,
                         status |-> "OK", servers |-> public_servers,
                         total |-> Cardinality(public_servers)]
         /\ UNCHANGED <<keystoreVars, sessionVars, syncVars, now, bootVars, libVars, nonceVars, storeVars>>

\* GET /servers/stats
server_stats ==
    /\ response' = [op |-> "server_stats", status |-> "OK",
                    total_servers |-> Cardinality(DOMAIN servers),
                    public_servers |-> Cardinality(list_public(servers)),
                    authenticated_servers |-> Cardinality(list_authenticated(servers))]
    /\ UNCHANGED <<keystoreVars, sessionVars, registryVars, syncVars, now, bootVars, libVars, nonceVars, storeVars>>

\* GET /servers/all
list_all_servers ==
    /\ response' = [op |-> "list_all_servers", status |-> "OK", servers |-> list_all(servers)]
    /\ UNCHANGED <<keystoreVars, sessionVars, registryVars, syncVars, now, bootVars, libVars, nonceVars, storeVars>>

\* the local administrative action: ServerRegistry::set_authenticated
set_authenticated(server_id, authenticated, save_ok) ==
    LET r == registry_set_authenticated(servers, server_id, authenticated, save_ok, now) IN
    /\ servers' = r.servers
    /\ response' = [op |-> "set_authenticated", server_id |-> server_id,
                    authenticated |-> authenticated, ok |-> r.ok]
    /\ UNCHANGED <<keystoreVars, sessionVars, syncVars, now, bootVars, libVars, nonceVars, storeVars>>

(***************************************************************************)
(* Background sync service (services/sync.rs).                             *)
(* What a peer answers is an input: no answer at all, a status that is not *)
(* a success, or a JSON body.  The objects of a body are records that may  *)
(* lack fields; serde builds a ServerEntry from each of them.              *)
(***************************************************************************)
\* the fields serde requires in a ServerEntry object (those that are not Option)
RequiredFields ==
    {"server_id", "name", "public_url", "public_key", "is_public", "is_authenticated",
     "discovered_at", "trust_level"}

\* the Option fields of ServerEntry, None when the object lacks them
OptionalFields == {"description", "last_seen", "last_sync", "version"}

\* serde's Deserialize for ServerEntry (server_registry.rs:15-41); unknown fields are
\* ignored, trust_level is a u8
ParseServerEntry(obj) ==
    IF RequiredFields \subseteq DOMAIN obj /\ obj.trust_level \in 0..255
    THEN Some([f \in RequiredFields \cup OptionalFields |->
                 IF f \in DOMAIN obj THEN obj[f] ELSE None])
    ELSE None

\* serde's Deserialize for Vec<ServerEntry>: fails when one object fails
ParseServers(objs) ==
    IF \A i \in 1..Len(objs) : ParseServerEntry(objs[i]) # None
    THEN Some([i \in 1..Len(objs) |-> Unwrap(ParseServerEntry(objs[i]))])
    ELSE None

\* a complete ServerEntry object as a peer may send it
WireEntry(server_id, authenticated) ==
    [server_id |-> server_id, name |-> "gossip", description |-> None,
     public_url |-> "https://gossip", public_key |-> "pk",
     is_public |-> TRUE, is_authenticated |-> authenticated,
     discovered_at |-> 0, last_seen |-> None, last_sync |-> None,
     version |-> None, trust_level |-> 90]

\* the complete entries peers send
WireEntries == { WireEntry("s1", TRUE), WireEntry("s1", FALSE), WireEntry("s2", FALSE) }

\* sequences over S of length at most n
SeqsUpTo(S, n) == UNION { [1..k -> S] : k \in 0..n }

\* the bodies peers send: lists of complete entries, and lists in the
\* PublicServerInfo shape of the sync responder
WireBodies ==
    SeqsUpTo(WireEntries, MaxList) \cup { <<PublicServerInfo(e)>> : e \in WireEntries }

\* what the peer's end of a sync request can produce
PeerAnswers ==
    { [kind |-> "error"], [kind |-> "status", code |-> 401] }
      \cup { [kind |-> "body", servers |-> objs, total |-> Len(objs)] : objs \in WireBodies }

\* SyncService::sync_with_server, mutated: the peer is marked as synced before the
\* answer is looked at
sync_with_server_mark_first(current, server_id, answer, saves, t) ==
    LET marked == registry_mark_synced(current, server_id, TRUE, t).servers IN
    IF answer.kind = "error" THEN [ok |-> FALSE, added |-> 0, servers |-> marked]
    ELSE IF answer.kind = "status" THEN [ok |-> FALSE, added |-> 0, servers |-> marked]
    ELSE LET data == ParseServers(answer.servers) IN
         IF data = None THEN [ok |-> FALSE, added |-> 0, servers |-> marked]
         ELSE LET m == merge_from(marked, Unwrap(data), saves) IN
              [ok |-> TRUE, added |-> m.added, servers |-> m.servers]

\* SyncService::sync_with_server: Ok(added) or Err, and the registry afterwards.
\* The result of mark_synced is discarded (let _ =) and the entry is changed in
\* memory whether or not its file is written, so that write is not an input here.
sync_with_server(current, server_id, answer, saves, t) ==
    IF answer.kind = "error" THEN [ok |-> FALSE, added |-> 0, servers |-> current]
    ELSE IF answer.kind = "status" THEN [ok |-> FALSE, added |-> 0, servers |-> current]
    ELSE LET data == ParseServers(answer.servers) IN
         IF data = None THEN [ok |-> FALSE, added |-> 0, servers |-> current]
         ELSE LET m == merge_from(current, Unwrap(data), saves) IN
              [ok |-> TRUE, added |-> m.added,
               servers |-> registry_mark_synced(m.servers, server_id, TRUE, t).servers]

\* SyncService::sync_all_servers up to its loop; the tick that precedes the call
\* is counted by the loop that makes it
sync_all_servers_start(client_ok) ==
    LET authenticated_servers == list_authenticated(servers) IN
    /\ sync_pc = "idle"
    /\ IF authenticated_servers = {}
       THEN /\ response' = [op |-> "sync_all_servers", ok |-> TRUE, peers |-> {}]
            /\ UNCHANGED <<sync_pc, sync_pending>>
       ELSE IF ~client_ok
       THEN /\ response' = [op |-> "sync_all_servers", ok |-> FALSE, peers |-> {}]
            /\ UNCHANGED <<sync_pc, sync_pending>>
       ELSE /\ sync_pc' = "syncing"
            /\ sync_pending' = { e.server_id : e \in authenticated_servers }
            /\ response' = [op |-> "sync_all_servers", ok |-> TRUE,
                            peers |-> { e.server_id : e \in authenticated_servers }]
    /\ UNCHANGED <<keystoreVars, sessionVars, registryVars, now, bootVars, libVars, nonceVars, storeVars>>

\* one iteration of the loop, mutated: a request that failed is made again
sync_all_servers_step_retry(server_id, answer, saves) ==
    /\ sync_pc = "syncing"
    /\ server_id \in sync_pending
    /\ LET r == sync_with_server(servers, server_id, answer, saves, now) IN
       /\ servers' = r.servers
       /\ response' = [op |-> "sync_with_server", server_id |-> server_id,
                       ok |-> r.ok, added |-> r.added]
       /\ sync_pending' = IF r.ok THEN sync_pending \ {server_id} ELSE sync_pending
    /\ sync_pc' = IF sync_pending' = {} THEN "idle" ELSE "syncing"
    /\ UNCHANGED <<keystoreVars, sessionVars, sync_ticks, now, bootVars, libVars, nonceVars, storeVars>>

\* one iteration of the loop, mutated: a failed request ends the cycle
sync_all_servers_step_abort(server_id, answer, saves) ==
    /\ sync_pc = "syncing"
    /\ server_id \in sync_pending
    /\ LET r == sync_with_server(servers, server_id, answer, saves, now) IN
       /\ servers' = r.servers
       /\ response' = [op |-> "sync_with_server", server_id |-> server_id,
                       ok |-> r.ok, added |-> r.added]
       /\ sync_pending' = IF r.ok THEN sync_pending \ {server_id} ELSE {}
    /\ sync_pc' = IF sync_pending' = {} THEN "idle" ELSE "syncing"
    /\ UNCHANGED <<keystoreVars, sessionVars, sync_ticks, now, bootVars, libVars, nonceVars, storeVars>>

\* one iteration of the loop of sync_all_servers
sync_all_servers_step(server_id, answer, saves) ==
    /\ sync_pc = "syncing"
    /\ server_id \in sync_pending
    /\ LET r == sync_with_server(servers, server_id, answer, saves, now) IN
       /\ servers' = r.servers
       /\ response' = [op |-> "sync_with_server", server_id |-> server_id,
                       ok |-> r.ok, added |-> r.added]
    /\ sync_pending' = sync_pending \ {server_id}
    /\ sync_pc' = IF sync_pending' = {} THEN "idle" ELSE "syncing"
    /\ UNCHANGED <<keystoreVars, sessionVars, sync_ticks, now, bootVars, libVars, nonceVars, storeVars>>

(***************************************************************************)
(* Specification of the registration handshake.                            *)
(***************************************************************************)
\* the state after construction: the stores are empty; the keypair and the admin key
\* are drawn from the random generator once
Init ==
    /\ server_keys = Empty
    /\ client_config = Empty
    /\ sessions = Empty
    /\ servers = Empty
    /\ sync_pc = "idle"
    /\ sync_pending = {}
    /\ sync_ticks = 0
    /\ keygen = 0
    /\ tokgen = 0
    /\ now = 0
    /\ noncegen = 0
    /\ nonce_log = {}
    /\ disk = [servers_d |-> Empty, server_keys |-> Empty, client_config |-> Empty]
    /\ inflight = Empty
    /\ lib_sessions = Empty
    /\ response = [op |-> "none"]
    /\ server_keypair = ServerKeyPairGenerate(1)
    /\ admin_key = AdminConfigGenerate(1).admin_key

RegisterInit == \E c \in ClientIds : register_init(c)

RegisterComplete == \E c \in ClientIds, msg \in Payloads : register_complete(c, msg)

NextReg ==
    \/ RegisterInit
    \/ RegisterComplete

SpecReg == Init /\ [][NextReg]_vars

(***************************************************************************)
(* Direct use of the keystore manager, as in keystore_test.rs.             *)
(***************************************************************************)
\* KeyStoreManager::generate_server_key_for_client
generate_server_key_for_client(client_id) ==
    /\ keygen < MaxKeys
    /\ LET entry == ServerKeyEntryGenerate(client_id, keygen + 1, now) IN
       /\ server_keys' = add_key(server_keys, entry)
       /\ keygen' = keygen + 1
       /\ response' = [op |-> "generate_server_key_for_client", client_id |-> client_id,
                       entry |-> Some(entry)]
    /\ UNCHANGED <<client_config, sessionVars, registryVars, syncVars, now, bootVars, libVars, nonceVars, storeVars>>

\* KeyStoreManager::register_client called with any string as the key
register_client_call(client_id, client_public_key) ==
    LET reg == register_client(server_keys, client_config, client_id, client_public_key, now) IN
    /\ client_config' = reg.clients
    /\ response' = [op |-> "register_client", client_id |-> client_id, entry |-> reg.entry]
    /\ UNCHANGED <<server_keys, keygen, sessionVars, registryVars, syncVars, now, bootVars, libVars, nonceVars, storeVars>>

GenerateServerKeyForClient == \E c \in ClientIds : generate_server_key_for_client(c)

RegisterClient ==
    \E c \in ClientIds, ct \in Ciphertexts : register_client_call(c, ct.bytes)

NextKeystore ==
    \/ GenerateServerKeyForClient
    \/ RegisterClient
    \/ RegisterInit
    \/ RegisterComplete

SpecKeystore == Init /\ [][NextKeystore]_vars

(***************************************************************************)
(* Specification of the federation: the endpoints, the local               *)
(* administrative action and the sync service.                             *)
(***************************************************************************)
RegisterServer ==
    \E req \in RegisterServerRequests, save_ok \in BOOLEAN : register_server(req, save_ok)

SyncServers ==
    \E req \in SyncRequests, save_ok \in BOOLEAN : sync_servers(req, save_ok)

SetAuthenticated ==
    \E s \in ServerIds, a \in BOOLEAN, save_ok \in BOOLEAN : set_authenticated(s, a, save_ok)

\* a cycle, its tick not counted
SyncStart ==
    /\ \E client_ok \in BOOLEAN : sync_all_servers_start(client_ok)
    /\ UNCHANGED sync_ticks

SyncStep ==
    \E s \in sync_pending, answer \in PeerAnswers :
        \E saves \in [1..(IF answer.kind = "body" THEN Len(answer.servers) ELSE 0) -> BOOLEAN] :
            sync_all_servers_step(s, answer, saves)

NextFed ==
    \/ RegisterServer
    \/ SyncServers
    \/ SetAuthenticated
    \/ SyncStart
    \/ SyncStep

SpecFed == Init /\ [][NextFed]_vars

(***************************************************************************)
(* Specification of the registry used directly: entries are registered,    *)
(* authenticated by the local administrator, and lists are merged.         *)
(***************************************************************************)
\* ServerRegistry::merge_from called with a list of entries
merge_from_call(list, saves) ==
    LET m == merge_from(servers, list, saves) IN
    /\ servers' = m.servers
    /\ response' = [op |-> "merge_from", list |-> list, added |-> m.added]
    /\ UNCHANGED <<keystoreVars, sessionVars, syncVars, now, bootVars, libVars, nonceVars, storeVars>>

MergeFrom ==
    \E list \in SeqsUpTo(WireEntries, MaxList) :
        \E saves \in [1..Len(list) -> BOOLEAN] : merge_from_call(list, saves)

NextRegistry ==
    \/ RegisterServer
    \/ SetAuthenticated
    \/ MergeFrom

SpecRegistry == Init /\ [][NextRegistry]_vars

(***************************************************************************)
(* Specification of a backend whose sync service talks to other backends:  *)
(* what a peer answers is what its own /servers/sync handler produces from *)
(* its registry.                                                           *)
(***************************************************************************)
\* AdminAuth::get_server_id of this backend
OurServerId == "self"

\* the body SyncService::sync_with_server posts
OurSyncRequest ==
    [requesting_server_id |-> OurServerId, requesting_server_key |-> "pk"]

\* the orders in which a Vec can hold the elements of S
SeqsOf(S) ==
    { f \in [1..Cardinality(S) -> S] :
        \A i, j \in 1..Cardinality(S) : f[i] = f[j] => i = j }

\* POST /servers/sync as the requester sees it: the answers a backend with the
\* registry `current` can send to the request req
sync_servers_wire(current, req) ==
    LET server == registry_get(current, req.requesting_server_id) IN
    IF server = None THEN { [kind |-> "status", code |-> 401] }
    ELSE IF ~Unwrap(server).is_authenticated THEN { [kind |-> "status", code |-> 401] }
    ELSE { [kind |-> "body", servers |-> objs, total |-> Len(objs)] :
           objs \in SeqsOf({ PublicServerInfo(e) : e \in list_public(current) }) }

\* an entry of a peer's registry, as register_server and set_authenticated leave it
PeerEntry(server_id, is_public, authenticated) ==
    [ServerEntryNew(server_id, "peer", "https://peer", "pk", 0)
       EXCEPT !.is_public = is_public, !.is_authenticated = authenticated]

\* registries of a peer at which this backend has registered
PeerRegistries ==
    { [s \in {OurServerId} \cup others |->
         IF s = OurServerId THEN PeerEntry(s, p, a) ELSE PeerEntry(s, TRUE, FALSE)] :
      others \in SUBSET ServerIds, p \in BOOLEAN, a \in BOOLEAN }

\* a request to a peer backend: it is answered by the peer's handler, or it ends
\* with a transport error or the client's timeout
SyncPeer ==
    \E s \in sync_pending, current \in PeerRegistries :
        \E answer \in sync_servers_wire(current, OurSyncRequest) \cup { [kind |-> "error"] } :
            \E saves \in [1..(IF answer.kind = "body" THEN Len(answer.servers) ELSE 0)
                             -> BOOLEAN] :
                sync_all_servers_step(s, answer, saves)

NextPair ==
    \/ RegisterServer
    \/ SetAuthenticated
    \/ SyncStart
    \/ SyncPeer

SpecPair == Init /\ [][NextPair]_vars

(***************************************************************************)
(* Specification of the sync service as a task that runs forever, its      *)
(* peers being backends.  The interval timer fires again and again and     *)
(* every request ends, with an answer or with the client's timeout: both   *)
(* steps are weakly fair.                                                  *)
(***************************************************************************)
\* one turn of the loop of run_sync_loop, mutated: the loop is left after its
\* first turn
run_sync_loop_once ==
    /\ sync_ticks = 0
    /\ \E client_ok \in BOOLEAN : sync_all_servers_start(client_ok)
    /\ sync_ticks' = (sync_ticks + 1) % 2

\* one turn of the loop of run_sync_loop: the tick, then sync_all_servers up to
\* its loop; an Err it returns is logged
run_sync_loop ==
    /\ \E client_ok \in BOOLEAN : sync_all_servers_start(client_ok)
    /\ sync_ticks' = (sync_ticks + 1) % 2

RunSyncLoop == run_sync_loop

NextLoop ==
    \/ RegisterServer
    \/ SetAuthenticated
    \/ RunSyncLoop
    \/ SyncPeer

SpecLoop ==
    Init /\ [][NextLoop]_vars /\ WF_vars(RunSyncLoop) /\ WF_vars(SyncPeer)

(***************************************************************************)
(* Specification of the session endpoints (api/auth.rs) with a clock.      *)
(***************************************************************************)
\* the strings clients present as api keys: 0 is a string no session was created
\* with, n > 0 is the n-th key drawn from the random generator
ApiKeys == 0..MaxSessions

\* SessionStore::create as a step: the api key is drawn before the expiry is computed
session_create(store, n, ttl_secs, t) ==
    IF SessionNewPanics(ttl_secs)
    THEN [session |-> None, sessions |-> store]
    ELSE [session |-> Some(SessionNew(n, ttl_secs, t)),
          sessions |-> SessionCreate(store, n, ttl_secs, t)]

\* POST /auth/join
join ==
    /\ tokgen < MaxSessions
    /\ LET r == session_create(sessions, tokgen + 1, SessionTtl, now) IN
       /\ sessions' = r.sessions
       /\ tokgen' = tokgen + 1
       /\ response' = [op |-> "join", session |-> r.session]
    /\ UNCHANGED <<keystoreVars, registryVars, syncVars, now, bootVars, libVars, nonceVars, storeVars>>

\* POST /auth/verify; dt is the time that passes between the two clock readings
\* of SessionStore::validate
verify(api_key, dt) ==
    /\ now + dt <= MaxTime
    /\ dt = 0 \/ (api_key \in DOMAIN sessions /\ ~is_expired(sessions[api_key], now))
    /\ LET r == session_validate(sessions, api_key, now, now + dt) IN
       /\ sessions' = r.sessions
       /\ response' = [op |-> "verify", api_key |-> api_key, valid |-> r.session # None,
                       session |-> r.session]
    /\ now' = now + dt
    /\ UNCHANGED <<keystoreVars, tokgen, registryVars, syncVars, bootVars, libVars, nonceVars, storeVars>>

\* POST /auth/logout
logout(api_key) ==
    LET r == session_revoke(sessions, api_key) IN
    /\ sessions' = r.sessions
    /\ response' = [op |-> "logout", api_key |-> api_key, success |-> r.removed]
    /\ UNCHANGED <<keystoreVars, tokgen, registryVars, syncVars, now, bootVars, libVars, nonceVars, storeVars>>

\* SessionStore::cleanup_expired called by a maintenance task
cleanup_expired ==
    LET r == session_cleanup_expired(sessions, now) IN
    /\ sessions' = r.sessions
    /\ response' = [op |-> "cleanup_expired", removed |-> r.removed]
    /\ UNCHANGED <<keystoreVars, tokgen, registryVars, syncVars, now, bootVars, libVars, nonceVars, storeVars>>

\* time passes
tick ==
    /\ now < MaxTime
    /\ now' = now + 1
    /\ response' = [op |-> "tick"]
    /\ UNCHANGED <<keystoreVars, sessionVars, registryVars, syncVars, bootVars, libVars,
                 nonceVars, storeVars>>

Join == join

Verify == \E k \in ApiKeys, dt \in 0..1 : verify(k, dt)

Logout == \E k \in ApiKeys : logout(k)

Tick == tick

CleanupExpired == cleanup_expired

NextSess ==
    \/ Join
    \/ Verify
    \/ Logout
    \/ CleanupExpired
    \/ Tick

SpecSess == Init /\ [][NextSess]_vars

(***************************************************************************)
(* Specification of the sync responder with a clock.                       *)
(***************************************************************************)
\* the local administrator authenticates one of the registered peers, or withdraws it
SetAuthenticatedOne ==
    \E a \in BOOLEAN, save_ok \in BOOLEAN : set_authenticated("s1", a, save_ok)

NextResponder ==
    \/ RegisterServer
    \/ SyncServers
    \/ SetAuthenticatedOne
    \/ Tick

SpecResponder == Init /\ [][NextResponder]_vars

(***************************************************************************)
(* Specification of the session store used directly with any ttl, as in    *)
(* session_test.rs.                                                        *)
(***************************************************************************)
\* SessionStore::create called with any u64
create_call(ttl_secs) ==
    /\ tokgen < MaxSessions
    /\ LET r == session_create(sessions, tokgen + 1, ttl_secs, now) IN
       /\ sessions' = r.sessions
       /\ tokgen' = tokgen + 1
       /\ response' = [op |-> "create", ttl_secs |-> ttl_secs, session |-> r.session]
    /\ UNCHANGED <<keystoreVars, registryVars, syncVars, now, bootVars, libVars, nonceVars, storeVars>>

\* the u64 values at the edges of the cast and of the chrono range
TtlSamples ==
    {0, 1, SessionTtl, DurationMax, DurationMax + 1, 2^(WordBits - 1),
     2^WordBits - 2, 2^WordBits - 1}

CreateCall == \E ttl_secs \in TtlSamples : create_call(ttl_secs)

NextTtl ==
    \/ CreateCall
    \/ Tick

SpecTtl == Init /\ [][NextTtl]_vars

(***************************************************************************)
(* Specification of the federation endpoints next to the session           *)
(* endpoints: the requests a caller can send to one router.                *)
(***************************************************************************)
ServerStats == server_stats

ListAllServers == list_all_servers

NextGate ==
    \/ Join
    \/ Logout
    \/ RegisterServer
    \/ SyncServers
    \/ SetAuthenticated
    \/ ServerStats
    \/ ListAllServers

SpecGate == Init /\ [][NextGate]_vars

(***************************************************************************)
(* Key exchange endpoints (api/keys.rs).                                   *)
(***************************************************************************)
\* number of nonces drawn from the random generator in one run
MaxNonces == 2

\* the secrets of the clients that talk to the server
ClientSeeds == {2, 7}

\* hex strings sent as client_public_key: the keys of the clients, 64 times 'a',
\* 64 times 'A', 63 characters, 66 characters, "abc123", 64 characters with a 'g'
KeyStrings ==
    { hex_encode(ClientKeyPairGenerate(s).public) : s \in ClientSeeds }
    \cup { Rep(KeyLen, 97), Rep(KeyLen, 65), Rep(KeyLen - 1, 97), Rep(KeyLen + 2, 97),
           <<97, 98, 99, 49, 50, 51>>, [Rep(KeyLen, 97) EXCEPT ![KeyLen] = 103] }

\* message bodies: "hi", a byte that is not UTF-8, the empty message
Plaintexts == { <<104, 105>>, <<255>>, <<>> }

\* String::from_utf8_lossy on the sample bytes: a byte that is not UTF-8 becomes
\* U+FFFD
RECURSIVE from_utf8_lossy(_)
from_utf8_lossy(bytes) ==
    IF bytes = <<>> THEN <<>>
    ELSE (IF bytes[1] < 128 THEN <<bytes[1]>> ELSE <<239, 191, 189>>)
         \o from_utf8_lossy(Tail(bytes))

\* the envelopes clients send to a server with the given public key: messages sealed
\* by the first client under its shared secret with a nonce of its own, a message
\* sealed by the second client, and one message with the nonce not base64, the nonce
\* one byte short, the ciphertext not base64, one byte of the ciphertext changed,
\* and the ciphertext shorter than a tag
Envelopes(server_public) ==
    LET sealed(s, m) ==
            Unwrap(seal(m, client_derive_shared_secret(ClientKeyPairGenerate(s),
                                                       server_public),
                        fill_bytes(200 + s)).message)
        good == sealed(2, <<104, 105>>)
        bytes == b64_decode(good.ciphertext).bytes
    IN { sealed(2, m) : m \in Plaintexts }
       \cup { sealed(7, <<104, 105>>),
              [good EXCEPT !.nonce = <<33, 33, 33, 33>>],
              [good EXCEPT !.nonce = b64_encode(Rep(NonceBytes - 1, 7))],
              [good EXCEPT !.ciphertext = <<33, 33, 33, 33>>],
              [good EXCEPT !.ciphertext =
                  b64_encode([bytes EXCEPT ![1] = (bytes[1] + 1) % 256])],
              [good EXCEPT !.ciphertext = b64_encode(<<1, 2>>)] }

\* the result of the last operation also records the request it answered
\* GET /keys/public
get_public_key ==
    /\ response' = [op |-> "get_public_key", public_key |-> public_key_hex(server_keypair)]
    /\ UNCHANGED <<keystoreVars, sessionVars, registryVars, syncVars, now, bootVars, libVars,
                   nonceVars, storeVars>>

\* POST /keys/exchange
key_exchange(client_public_key) ==
    LET client_public == parse_public_key(client_public_key) IN
    IF ~client_public.ok
    THEN /\ response' = [op |-> "key_exchange", client_public_key |-> client_public_key,
                         status |-> "BAD_REQUEST",
                         body |-> to_string(client_public.error)]
         /\ UNCHANGED <<keystoreVars, sessionVars, registryVars, syncVars, now, bootVars, libVars,
                        nonceVars, storeVars>>
    ELSE /\ tokgen < MaxSessions
         /\ LET r == session_create(sessions, tokgen + 1, SessionTtl, now) IN
            /\ sessions' = r.sessions
            /\ tokgen' = tokgen + 1
            /\ response' = [op |-> "key_exchange",
                            client_public_key |-> client_public_key,
                            status |-> IF r.session = None THEN "PANIC" ELSE "OK",
                            session |-> r.session,
                            server_public_key |-> public_key_hex(server_keypair)]
         /\ UNCHANGED <<keystoreVars, registryVars, syncVars, now, bootVars, libVars, nonceVars, storeVars>>

\* POST /keys/send
send_encrypted(client_public_key, payload) ==
    LET client_public == parse_public_key(client_public_key)
        shared_secret == server_derive_shared_secret(server_keypair, client_public.bytes)
        plaintext == decrypt(payload, shared_secret)
        response_text ==
            <<82, 101, 99, 101, 105, 118, 101, 100, 58, 32>>
                \o from_utf8_lossy(plaintext.plaintext)
        encrypted_response == encrypt(response_text, shared_secret, noncegen + 1)
        fail(status, error) ==
            /\ response' = [op |-> "send_encrypted",
                            client_public_key |-> client_public_key,
                            request |-> payload, status |-> status,
                            body |-> to_string(error)]
            /\ UNCHANGED <<keystoreVars, sessionVars, registryVars, syncVars, now,
                           bootVars, libVars, nonceVars, storeVars>>
    IN
    IF ~client_public.ok THEN fail("BAD_REQUEST", client_public.error)
    ELSE IF ~plaintext.ok THEN fail("BAD_REQUEST", plaintext.error)
    ELSE /\ noncegen < MaxNonces
         /\ noncegen' = noncegen + 1
         /\ IF ~encrypted_response.ok
            THEN /\ response' = [op |-> "send_encrypted",
                                 client_public_key |-> client_public_key,
                                 request |-> payload,
                                 status |-> "INTERNAL_SERVER_ERROR",
                                 body |-> to_string(encrypted_response.error)]
                 /\ UNCHANGED nonce_log
            ELSE /\ response' = [op |-> "send_encrypted",
                                 client_public_key |-> client_public_key,
                                 request |-> payload, status |-> "OK",
                                 payload |-> Unwrap(encrypted_response.message)]
                 /\ nonce_log' = nonce_log \cup
                       {[key |-> shared_secret,
                         nonce |-> Unwrap(encrypted_response.message).nonce]}
         /\ UNCHANGED <<keystoreVars, sessionVars, registryVars, syncVars, now, bootVars, libVars, storeVars>>

(***************************************************************************)
(* Specification of the key exchange endpoints.                            *)
(***************************************************************************)
GetPublicKey == get_public_key

KeyExchange == \E k \in KeyStrings : key_exchange(k)

\* the keys sent along with a message: the key of the first client and a malformed one
SenderKeys == { hex_encode(ClientKeyPairGenerate(2).public), <<97, 98, 99, 49, 50, 51>> }

SendEncrypted ==
    \E k \in SenderKeys, p \in Envelopes(server_keypair.public) : send_encrypted(k, p)

NextKeys ==
    \/ GetPublicKey
    \/ KeyExchange
    \/ SendEncrypted

SpecKeys == Init /\ [][NextKeys]_vars

(***************************************************************************)
(* Admin endpoints (api/admin.rs).                                         *)
(***************************************************************************)
\* the factor by which an admin session outlives an ordinary one
AdminTtlFactor == 24

\* the keys presented to the login: the key of the server, another generated key,
\* the empty string
AdminKeys == { AdminConfigGenerate(1).admin_key, AdminConfigGenerate(2).admin_key, <<>> }

\* values of Config::session_ttl_secs, read from SESSION_TTL as a u64
ConfiguredTtls == {0, 1, SessionTtl, SessionTtl + 1, 2^WordBits - 1}

\* POST /admin/login.  The product is computed in the u64: where it does not fit, a
\* build with overflow checks panics and a build without them keeps the low bits
admin_login(key, session_ttl_secs, overflow_checks) ==
    LET product == session_ttl_secs * AdminTtlFactor IN
    IF ~admin_verify(admin_key, key)
    THEN /\ response' = [op |-> "admin_login", admin_key |-> key,
                         session_ttl_secs |-> session_ttl_secs,
                         status |-> "UNAUTHORIZED", authenticated |-> FALSE,
                         session |-> None]
         /\ UNCHANGED <<keystoreVars, sessionVars, registryVars, syncVars, now, bootVars, libVars,
                        nonceVars, storeVars>>
    ELSE IF product >= 2^WordBits /\ overflow_checks
    THEN /\ response' = [op |-> "admin_login", admin_key |-> key,
                         session_ttl_secs |-> session_ttl_secs,
                         status |-> "PANIC", authenticated |-> FALSE, session |-> None]
         /\ UNCHANGED <<keystoreVars, sessionVars, registryVars, syncVars, now, bootVars, libVars,
                        nonceVars, storeVars>>
    ELSE /\ tokgen < MaxSessions
         /\ LET r == session_create(sessions, tokgen + 1, product % 2^WordBits, now) IN
            /\ sessions' = r.sessions
            /\ tokgen' = tokgen + 1
            /\ response' = [op |-> "admin_login", admin_key |-> key,
                            session_ttl_secs |-> session_ttl_secs,
                            status |-> IF r.session = None THEN "PANIC" ELSE "OK",
                            authenticated |-> r.session # None, session |-> r.session]
         /\ UNCHANGED <<keystoreVars, registryVars, syncVars, now, bootVars, libVars, nonceVars, storeVars>>

(***************************************************************************)
(* Specification of the admin login, for any configured session TTL and    *)
(* either build.                                                           *)
(***************************************************************************)
AdminLogin ==
    \E key \in AdminKeys, session_ttl_secs \in ConfiguredTtls, overflow_checks \in BOOLEAN :
        admin_login(key, session_ttl_secs, overflow_checks)

NextAdmin ==
    \/ AdminLogin
    \/ Tick

SpecAdmin == Init /\ [][NextAdmin]_vars

(***************************************************************************)
(* Specification of the cryptographic services used directly, as in        *)
(* crypto_test.rs.                                                         *)
(***************************************************************************)
\* shared secrets: the two keys of crypto_test.rs and one derived in a key exchange
SharedKeys ==
    { Rep(KeyBytes, 42), Rep(KeyBytes, 99),
      server_derive_shared_secret(ServerKeyPairGenerate(1),
                                  ClientKeyPairGenerate(2).public) }

\* a server and a client generate their keypairs and each derives the shared secret
\* from its own secret and the public key of the other
derive_shared_secrets(server_secret, client_secret) ==
    LET server == ServerKeyPairGenerate(server_secret)
        client == ClientKeyPairGenerate(client_secret)
    IN
    /\ response' = [op |-> "derive", server_secret |-> server_secret,
                    client_secret |-> client_secret,
                    server_shared |-> server_derive_shared_secret(server, client.public),
                    client_shared |-> client_derive_shared_secret(client, server.public)]
    /\ UNCHANGED <<keystoreVars, sessionVars, registryVars, syncVars, now, bootVars, libVars,
                   nonceVars, storeVars>>

\* EncryptedMessage::encrypt(plaintext, shared_secret)
encrypt_call(plaintext, shared_secret) ==
    /\ noncegen < MaxNonces
    /\ LET encrypted == encrypt(plaintext, shared_secret, noncegen + 1) IN
       /\ noncegen' = noncegen + 1
       /\ nonce_log' = nonce_log \cup
             {[key |-> shared_secret, nonce |-> Unwrap(encrypted.message).nonce]}
       /\ response' = [op |-> "encrypt", plaintext |-> plaintext, key |-> shared_secret,
                       message |-> Unwrap(encrypted.message)]
    /\ UNCHANGED <<keystoreVars, sessionVars, registryVars, syncVars, now, bootVars, libVars, storeVars>>

\* encrypted.decrypt(shared_secret) of the message that was just encrypted
decrypt_call(shared_secret) ==
    /\ response.op = "encrypt"
    /\ response' = [op |-> "decrypt", plaintext |-> response.plaintext,
                    sealed_with |-> response.key, key |-> shared_secret,
                    message |-> response.message,
                    result |-> decrypt(response.message, shared_secret)]
    /\ UNCHANGED <<keystoreVars, sessionVars, registryVars, syncVars, now, bootVars, libVars,
                   nonceVars, storeVars>>

DeriveSharedSecrets == \E a \in SecretSeeds, b \in SecretSeeds : derive_shared_secrets(a, b)

EncryptCall == \E m \in Plaintexts, k \in SharedKeys : encrypt_call(m, k)

DecryptCall == \E k \in SharedKeys : decrypt_call(k)

NextCrypto ==
    \/ DeriveSharedSecrets
    \/ EncryptCall
    \/ DecryptCall

SpecCrypto == Init /\ [][NextCrypto]_vars

(***************************************************************************)
(* The stores and their files, with concurrent writers.                    *)
(* A call is a step per critical section (a call that is one critical      *)
(* section is one step, whoever makes it): what a call does while it holds  *)
(* the write lock of its store is one step, what it does before taking the *)
(* lock is a step of its own, and steps of other calls may come between    *)
(* them.  servers.d holds one file per server_id; server_keys.yaml and     *)
(* client_config.yaml hold the whole store.  A write that fails leaves the *)
(* file as it was.                                                         *)
(***************************************************************************)
\* the server keys generated while the files are followed
MaxStoreKeys == 1

\* the request tasks that may be inside a store call at the same time
Writers == {"w1", "w2"}

\* the stores in memory, under the names of their files
StoreMemory ==
    [servers_d |-> servers, server_keys |-> server_keys, client_config |-> client_config]

\* HashMap::get on a store or on the records of its files
StoreGet(m, k) == IF k \in DOMAIN m THEN Some(m[k]) ELSE None

\* ServerEntry::save: the file of the entry afterwards
entry_save(files, entry, save_ok) ==
    IF save_ok THEN Put(files, entry.server_id, entry) ELSE files

\* ServerEntry::delete: Ok without a file
entry_delete(files, server_id, delete_ok) ==
    IF server_id \in DOMAIN files /\ delete_ok THEN Remove(files, server_id) ELSE files

\* ServerKeysStore::save and ClientConfigStore::save: the whole store is written
store_save(file, store, save_ok) == IF save_ok THEN store ELSE file

\* ServerRegistry::touch
registry_touch(current, server_id, save_ok, t) ==
    IF server_id \in DOMAIN current
    THEN [ok |-> save_ok, servers |-> [current EXCEPT ![server_id].last_seen = Some(t)]]
    ELSE [ok |-> TRUE, servers |-> current]

\* what the return of a store write tells: the store, the keys the call wrote for,
\* the outcome of its persistence ("none" when nothing was to be written), the
\* Result it returned, and the in-memory value its mutation makes for each key
\* (pairs of a key and the Option stored under it)
WriteReturn(op, store, keys, saved, ok, expected) ==
    [op |-> op, store |-> store, keys |-> keys, saved |-> saved,
     ok |-> ok, expected |-> expected]

\* ServerRegistry::register, first part: entry.save()? runs before the lock is taken
registry_register_save(w, entry, save_ok) ==
    /\ w \notin DOMAIN inflight
    /\ disk' = [disk EXCEPT !.servers_d = entry_save(@, entry, save_ok)]
    /\ IF save_ok
       THEN /\ inflight' = Put(inflight, w, [call |-> "register", entry |-> entry])
            /\ response' = [op |-> "register.save"]
       ELSE /\ inflight' = inflight
            /\ response' = WriteReturn("register", "servers_d", {entry.server_id},
                                       "failed", FALSE,
                                       {<<entry.server_id, Some(entry)>>})
    /\ UNCHANGED <<keystoreVars, sessionVars, registryVars, syncVars, now, bootVars, libVars, nonceVars>>

\* ServerRegistry::register, second part: the insertion under the write lock
registry_register_insert(w) ==
    /\ w \in DOMAIN inflight
    /\ inflight[w].call = "register"
    /\ LET entry == inflight[w].entry IN
       /\ servers' = Put(servers, entry.server_id, entry)
       /\ response' = WriteReturn("register", "servers_d", {entry.server_id}, "ok", TRUE,
                                  {<<entry.server_id, Some(entry)>>})
    /\ inflight' = Remove(inflight, w)
    /\ UNCHANGED <<keystoreVars, sessionVars, syncVars, now, bootVars, libVars, nonceVars, disk>>

\* ServerRegistry::remove
registry_remove(server_id, delete_ok) ==
    /\ servers' = Remove(servers, server_id)
    /\ disk' = IF server_id \in DOMAIN servers
               THEN [disk EXCEPT !.servers_d = entry_delete(@, server_id, delete_ok)]
               ELSE disk
    /\ LET present == server_id \in DOMAIN servers
           failed == present /\ server_id \in DOMAIN disk.servers_d /\ ~delete_ok
       IN response' = WriteReturn("remove", "servers_d",
                                  IF present THEN {server_id} ELSE {},
                                  IF ~present THEN "none" ELSE IF failed THEN "failed" ELSE "ok",
                                  ~failed, {<<server_id, None>>})
    /\ UNCHANGED <<keystoreVars, sessionVars, syncVars, now, bootVars, libVars, nonceVars, inflight>>

\* a registry write that changes its entry in place under the lock and then saves
\* it: r is what the operator makes of the registry
registry_write_in_place(op, server_id, save_ok, r) ==
    /\ servers' = r.servers
    /\ LET present == server_id \in DOMAIN servers IN
       /\ disk' = IF present
                  THEN [disk EXCEPT !.servers_d = entry_save(@, r.servers[server_id], save_ok)]
                  ELSE disk
       /\ response' = WriteReturn(op, "servers_d",
                                  IF present THEN {server_id} ELSE {},
                                  IF ~present THEN "none" ELSE IF save_ok THEN "ok" ELSE "failed",
                                  r.ok,
                                  {<<server_id, StoreGet(r.servers, server_id)>>})
    /\ UNCHANGED <<keystoreVars, sessionVars, syncVars, now, bootVars, libVars, nonceVars, inflight>>

\* the files after the loop of ServerRegistry::merge_from from position i on
RECURSIVE merge_files(_, _, _, _, _)
merge_files(current, files, list, saves, i) ==
    IF i > Len(list) THEN files
    ELSE IF list[i].server_id \notin DOMAIN current
         THEN merge_files(IF saves[i] THEN Put(current, list[i].server_id, list[i]) ELSE current,
                          entry_save(files, list[i], saves[i]), list, saves, i + 1)
         ELSE merge_files(current, files, list, saves, i + 1)

\* ServerRegistry::merge_from with its files
registry_merge_from(list, saves) ==
    LET m == merge_from(servers, list, saves)
        attempted == { i \in 1..Len(list) : list[i].server_id \notin DOMAIN servers }
        keys == { list[i].server_id : i \in attempted }
        firsts == { i \in attempted :
                      \A j \in attempted : list[j].server_id = list[i].server_id => i <= j }
    IN /\ servers' = m.servers
       /\ disk' = [disk EXCEPT !.servers_d = merge_files(servers, @, list, saves, 1)]
       /\ response' = WriteReturn("merge_from", "servers_d", keys,
                                  IF keys = {} THEN "none"
                                  ELSE IF \A i \in attempted : saves[i] THEN "ok" ELSE "failed",
                                  TRUE, { <<list[i].server_id, Some(list[i])>> : i \in firsts })
       /\ UNCHANGED <<keystoreVars, sessionVars, syncVars, now, bootVars, libVars, nonceVars, inflight>>

\* KeyStoreManager::generate_server_key_for_client with its file
keystore_generate(client_id, save_ok) ==
    /\ keygen < MaxStoreKeys
    /\ LET entry == ServerKeyEntryGenerate(client_id, keygen + 1, now) IN
       /\ server_keys' = add_key(server_keys, entry)
       /\ keygen' = keygen + 1
       /\ disk' = [disk EXCEPT !.server_keys = store_save(@, add_key(server_keys, entry), save_ok)]
       /\ response' = WriteReturn("generate_server_key_for_client", "server_keys",
                                  {client_id}, IF save_ok THEN "ok" ELSE "failed", TRUE,
                                  {<<client_id, Some(entry)>>})
    /\ UNCHANGED <<client_config, sessionVars, registryVars, syncVars, now, bootVars, libVars, nonceVars,
                   inflight>>

\* KeyStoreManager::register_client with its file
keystore_register_client(client_id, client_public_key, save_ok) ==
    LET reg == register_client(server_keys, client_config, client_id, client_public_key, now)
        present == reg.entry # None
    IN /\ client_config' = reg.clients
       /\ disk' = IF present
                  THEN [disk EXCEPT !.client_config = store_save(@, reg.clients, save_ok)]
                  ELSE disk
       /\ response' = WriteReturn("register_client", "client_config",
                                  IF present THEN {client_id} ELSE {},
                                  IF ~present THEN "none" ELSE IF save_ok THEN "ok" ELSE "failed",
                                  present, {<<client_id, reg.entry>>})
       /\ UNCHANGED <<server_keys, keygen, sessionVars, registryVars, syncVars, now, bootVars, libVars,
                      nonceVars, inflight>>

\* the entries the writers register: two values for one server_id
StoreEntries ==
    { [ServerEntryNew("s1", "peer", "https://peer", "pk", 0) EXCEPT !.is_public = p] :
      p \in BOOLEAN }

RegistryRegisterSave ==
    \E w \in Writers, e \in StoreEntries, save_ok \in BOOLEAN : registry_register_save(w, e, save_ok)

RegistryRegisterInsert == \E w \in Writers : registry_register_insert(w)

RegistryRemove ==
    \E delete_ok \in BOOLEAN : registry_remove("s1", delete_ok)

RegistrySetAuthenticated ==
    \E save_ok \in BOOLEAN :
        registry_write_in_place("set_authenticated", "s1", save_ok,
                                registry_set_authenticated(servers, "s1", TRUE, save_ok, now))

RegistryTouch ==
    \E save_ok \in BOOLEAN :
        registry_write_in_place("touch", "s1", save_ok,
                                registry_touch(servers, "s1", save_ok, now))

RegistryMarkSynced ==
    \E save_ok \in BOOLEAN :
        registry_write_in_place("mark_synced", "s1", save_ok,
                                registry_mark_synced(servers, "s1", save_ok, now))

RegistryMergeFrom ==
    \E list \in SeqsUpTo({WireEntry("s1", FALSE)}, MaxList) :
        \E saves \in [1..Len(list) -> BOOLEAN] : registry_merge_from(list, saves)

KeystoreGenerate ==
    \E save_ok \in BOOLEAN : keystore_generate("c1", save_ok)

KeystoreRegisterClient ==
    \E save_ok \in BOOLEAN : keystore_register_client("c1", "abc123", save_ok)

NextStore ==
    \/ RegistryRegisterSave
    \/ RegistryRegisterInsert
    \/ RegistryRemove
    \/ RegistrySetAuthenticated
    \/ RegistryTouch
    \/ RegistryMarkSynced
    \/ RegistryMergeFrom
    \/ KeystoreGenerate
    \/ KeystoreRegisterClient

SpecStore == Init /\ [][NextStore]_vars

(***************************************************************************)
(* Specification of the registration handshake with overlapping requests.  *)
(* The handlers run on a multi-threaded runtime and the keystore takes a   *)
(* lock per call: register_init reads the client store (get_client) and    *)
(* then writes the key store (generate_server_key_for_client) in two       *)
(* critical sections, and the steps of other requests may come between     *)
(* them.  A register_complete that runs without interruption is one of the *)
(* schedules of that handler.                                              *)
(***************************************************************************)
\* POST /register/init up to the end of its check: get_client under the read lock
register_init_check(w, client_id) ==
    /\ w \notin DOMAIN inflight
    /\ IF get_client(client_config, client_id) # None
       THEN /\ response' = [op |-> "register_init", client_id |-> client_id,
                            status |-> "CONFLICT"]
            /\ inflight' = inflight
       ELSE /\ response' = [op |-> "register_init.check", client_id |-> client_id]
            /\ inflight' = Put(inflight, w, [call |-> "register_init", client_id |-> client_id])
    /\ UNCHANGED <<keystoreVars, sessionVars, registryVars, syncVars, now, bootVars, libVars, nonceVars,
                   disk>>

\* POST /register/init from its key generation on: generate_server_key_for_client
\* under the write lock, and the answer
register_init_generate(w) ==
    /\ w \in DOMAIN inflight
    /\ inflight[w].call = "register_init"
    /\ keygen < MaxKeys
    /\ LET client_id == inflight[w].client_id
           entry == ServerKeyEntryGenerate(client_id, keygen + 1, now)
       IN /\ server_keys' = add_key(server_keys, entry)
          /\ keygen' = keygen + 1
          /\ response' = [op |-> "register_init", client_id |-> client_id,
                          status |-> "OK", server_public_key |-> entry.public_key]
    /\ inflight' = Remove(inflight, w)
    /\ UNCHANGED <<client_config, sessionVars, registryVars, syncVars, now, bootVars, libVars, nonceVars,
                   disk>>

RegisterInitCheck == \E w \in Writers, c \in ClientIds : register_init_check(w, c)

RegisterInitGenerate == \E w \in Writers : register_init_generate(w)

NextRace ==
    \/ RegisterInitCheck
    \/ RegisterInitGenerate
    \/ RegisterComplete

SpecRace == Init /\ [][NextRace]_vars

(***************************************************************************)
(* Session store of the library (omni-core-lib/src/session.rs), next to    *)
(* the session endpoints of the backend.  The library store is built       *)
(* with_ttl(SessionTtl); its session ids are drawn from the random         *)
(* generator like the api keys.  Each store holds one session at a time.   *)
(***************************************************************************)
\* Session::new of the library at clock value t; n is the session_id drawn
LibSessionNew(n, client_id, ttl_secs, t) ==
    [session_id |-> n, client_id |-> client_id, created_at |-> t,
     expires_at |-> t + ttl_secs, metadata |-> Empty]

\* Session::is_expired of the library at clock value t
lib_is_expired(session, t) == t > session.expires_at

\* Session::extend of the library at clock value t
session_extend(session, ttl_secs, t) == [session EXCEPT !.expires_at = t + ttl_secs]

\* SessionStore::get of the library: an expired session is not returned (and stays stored)
lib_session_get(store, session_id, t) ==
    IF session_id \in DOMAIN store /\ ~lib_is_expired(store[session_id], t)
    THEN Some(store[session_id])
    ELSE None

\* SessionStore::validate of the library
lib_session_validate(store, session_id, t) == lib_session_get(store, session_id, t)

\* SessionStore::extend of the library, mutated: the expiry is not looked at
lib_session_extend_any(store, session_id, ttl_secs, t1, t2) ==
    IF session_id \in DOMAIN store
    THEN LET extended == session_extend(store[session_id], ttl_secs, t2) IN
         [session |-> Some(extended), sessions |-> [store EXCEPT ![session_id] = extended]]
    ELSE [session |-> None, sessions |-> store]

\* SessionStore::extend of the library: the clock is read by is_expired (t1) and
\* again by Session::extend (t2)
lib_session_extend(store, session_id, ttl_secs, t1, t2) ==
    IF session_id \in DOMAIN store /\ ~lib_is_expired(store[session_id], t1)
    THEN LET extended == session_extend(store[session_id], ttl_secs, t2) IN
         [session |-> Some(extended), sessions |-> [store EXCEPT ![session_id] = extended]]
    ELSE [session |-> None, sessions |-> store]

\* SessionStore::cleanup_expired of the library
lib_session_cleanup_expired(store, t) ==
    [k \in { x \in DOMAIN store : ~lib_is_expired(store[x], t) } |-> store[k]]

\* SessionStore::create of the library
lib_create(client_id) ==
    /\ tokgen < MaxSessions
    /\ LET session == LibSessionNew(tokgen + 1, client_id, SessionTtl, now) IN
       /\ lib_sessions' = Put(lib_sessions, session.session_id, session)
       /\ response' = [op |-> "lib_create", session_id |-> session.session_id,
                       session |-> Some(session)]
    /\ tokgen' = tokgen + 1
    /\ UNCHANGED <<keystoreVars, sessions, registryVars, syncVars, now, bootVars, nonceVars,
                   storeVars>>

\* a call that reads the library store: SessionStore::get or SessionStore::validate
lib_read(op, session_id, session) ==
    /\ response' = [op |-> op, session_id |-> session_id, session |-> session]
    /\ UNCHANGED <<keystoreVars, sessionVars, registryVars, syncVars, now, bootVars, nonceVars,
                   storeVars, libVars>>

\* SessionStore::extend of the library as a call; dt is the time that passes
\* between its two clock readings
lib_extend(session_id, dt) ==
    /\ now + dt <= MaxTime
    /\ dt = 0 \/ (session_id \in DOMAIN lib_sessions
                  /\ ~lib_is_expired(lib_sessions[session_id], now))
    /\ LET r == lib_session_extend(lib_sessions, session_id, SessionTtl, now, now + dt) IN
       /\ lib_sessions' = r.sessions
       /\ response' = [op |-> "lib_extend", session_id |-> session_id, session |-> r.session]
    /\ now' = now + dt
    /\ UNCHANGED <<keystoreVars, sessionVars, registryVars, syncVars, bootVars, nonceVars,
                   storeVars>>

\* SessionStore::revoke of the library
lib_revoke(session_id) ==
    /\ lib_sessions' = Remove(lib_sessions, session_id)
    /\ response' = [op |-> "lib_revoke", session_id |-> session_id,
                    removed |-> session_id \in DOMAIN lib_sessions]
    /\ UNCHANGED <<keystoreVars, sessionVars, registryVars, syncVars, now, bootVars, nonceVars,
                   storeVars>>

\* SessionStore::cleanup_expired of the library as a call
lib_cleanup_expired ==
    /\ lib_sessions' = lib_session_cleanup_expired(lib_sessions, now)
    /\ response' = [op |-> "lib_cleanup_expired"]
    /\ UNCHANGED <<keystoreVars, sessionVars, registryVars, syncVars, now, bootVars, nonceVars,
                   storeVars>>

\* each store holds one session at a time: a session is created in a store that is empty
LibCreate == lib_sessions = Empty /\ lib_create("c1")

JoinEmpty == sessions = Empty /\ Join

LibGet == \E id \in ApiKeys : lib_read("lib_get", id, lib_session_get(lib_sessions, id, now))

LibValidate ==
    \E id \in ApiKeys : lib_read("lib_validate", id, lib_session_validate(lib_sessions, id, now))

LibExtend == \E id \in ApiKeys, dt \in 0..1 : lib_extend(id, dt)

LibRevoke == \E id \in ApiKeys : lib_revoke(id)

LibCleanupExpired == lib_cleanup_expired

NextLib ==
    \/ LibCreate
    \/ LibGet
    \/ LibValidate
    \/ LibExtend
    \/ LibRevoke
    \/ LibCleanupExpired
    \/ JoinEmpty
    \/ Verify
    \/ CleanupExpired
    \/ Tick

SpecLib == Init /\ [][NextLib]_vars

(***************************************************************************)
(* Federation: properties.                                                 *)
(***************************************************************************)
\* C7: an entry of the registry becomes authenticated only in a step of the local
\* set_authenticated operation; no other step (a merge of a peer's list in
\* particular) yields an entry with is_authenticated = true that was not so before.
C7_AuthenticatedOnlyLocally ==
    [][\A s \in DOMAIN servers' :
         (servers'[s].is_authenticated
            /\ (s \notin DOMAIN servers \/ ~servers[s].is_authenticated))
         => response'.op = "set_authenticated"]_vars

\* the position of the first entry of list with the server_id of list[i]
FirstOccurrence(list, i) ==
    CHOOSE j \in 1..i :
        /\ list[j].server_id = list[i].server_id
        /\ \A k \in 1..(j - 1) : list[k].server_id # list[i].server_id

\* C8: merge_from(L) leaves every entry that is already stored as it is, inserts
\* for every unknown server_id of L the first entry of L with that server_id,
\* inserts nothing else, and returns the growth of the registry.
C8_MergeInsertOnly ==
    [][response'.op = "merge_from" =>
         LET L == response'.list IN
         /\ \A s \in DOMAIN servers : s \in DOMAIN servers' /\ servers'[s] = servers[s]
         /\ \A i \in 1..Len(L) :
              L[i].server_id \notin DOMAIN servers
              => /\ L[i].server_id \in DOMAIN servers'
                 /\ servers'[L[i].server_id] = L[FirstOccurrence(L, i)]
         /\ DOMAIN servers' \subseteq
              DOMAIN servers \cup { L[i].server_id : i \in 1..Len(L) }
         /\ response'.added = Cardinality(DOMAIN servers') - Cardinality(DOMAIN servers)]_vars

\* C9: a merge_from(L) that directly follows a merge_from(L) of the same list
\* changes nothing in the registry and returns 0.
C9_MergeIdempotent ==
    [][(response.op = "merge_from" /\ response'.op = "merge_from"
          /\ response'.list = response.list)
       => (servers' = servers /\ response'.added = 0)]_vars

\* C10: sync_servers answers UNAUTHORIZED unless the requesting server is in the
\* registry with is_authenticated = true; then it answers OK with the
\* PublicServerInfo of exactly the entries that have is_public = true, and total
\* is their number.
C10_SyncAuthorization ==
    [][response'.op = "sync_servers" =>
         LET id == response'.requesting_server_id IN
         IF id \in DOMAIN servers /\ servers[id].is_authenticated
         THEN /\ response'.status = "OK"
              /\ response'.servers =
                   { PublicServerInfo(servers[s]) :
                       s \in { x \in DOMAIN servers : servers[x].is_public } }
              /\ \A p \in response'.servers : servers[p.server_id].is_public
              /\ response'.total = Cardinality(response'.servers)
         ELSE response'.status = "UNAUTHORIZED"]_vars

\* C10 witness: an authenticated requester was answered with a list that has an
\* entry, while the registry also holds an entry that is not public.
C10_Witness ==
    /\ response.op = "sync_servers"
    /\ response.status = "OK"
    /\ response.total = 1
    /\ \E s \in DOMAIN servers : ~servers[s].is_public
    /\ servers[response.requesting_server_id].is_authenticated


(***************************************************************************)
(* Registration handshake: properties.                                     *)
(***************************************************************************)
\* the registration state of a client_id (spec 4.2)
RegState(c) ==
    IF c \in DOMAIN client_config THEN "Registered"
    ELSE IF c \in DOMAIN server_keys THEN "KeyIssued"
    ELSE "Unregistered"

\* C1: a register_complete for a client_id without a ServerKeyEntry answers
\* NOT_FOUND whatever the payload is, stores no ClientEntry and creates no session.
C1_CompleteWithoutInitNotFound ==
    [][\A c \in ClientIds :
         (response'.op = "register_complete" /\ response'.client_id = c
            /\ c \notin DOMAIN server_keys)
         => /\ response'.status = "NOT_FOUND"
            /\ client_config' = client_config
            /\ sessions' = sessions
            /\ tokgen' = tokgen]_vars

\* C1 witness: a complete was answered NOT_FOUND for a client without a server key,
\* while another client has gone through the handshake.
C1_Witness ==
    /\ response.op = "register_complete"
    /\ response.status = "NOT_FOUND"
    /\ response.client_id \notin DOMAIN server_keys
    /\ client_config # Empty

\* C2: a register_init for a client_id that has a ClientEntry answers CONFLICT and
\* leaves the server keys, the client entries and the sessions as they were.
C2_InitAfterRegisteredConflict ==
    [][\A c \in ClientIds :
         (response'.op = "register_init" /\ response'.client_id = c
            /\ c \in DOMAIN client_config)
         => /\ response'.status = "CONFLICT"
            /\ server_keys' = server_keys
            /\ client_config' = client_config
            /\ sessions' = sessions]_vars

\* C2 witness: a register_init of a registered client was answered CONFLICT.
C2_Witness ==
    /\ response.op = "register_init"
    /\ response.status = "CONFLICT"
    /\ response.client_id \in DOMAIN client_config
    /\ sessions # Empty

\* C3: a register_init for a client_id that is KeyIssued succeeds, replaces the
\* pending ServerKeyEntry by a keypair that was not stored before and returns its
\* public key; the client has no ClientEntry afterwards either.
C3_ReinitOverwritesPendingKey ==
    [][\A c \in ClientIds :
         (response'.op = "register_init" /\ response'.client_id = c
            /\ RegState(c) = "KeyIssued")
         => /\ response'.status = "OK"
            /\ c \in DOMAIN server_keys'
            /\ \A d \in DOMAIN server_keys :
                 server_keys'[c].public_key # server_keys[d].public_key
            /\ response'.server_public_key = server_keys'[c].public_key
            /\ \A d \in DOMAIN server_keys \ {c} : server_keys'[d] = server_keys[d]
            /\ RegState(c)' = "KeyIssued"]_vars

\* C3 witness: a client that is KeyIssued holds the second keypair issued to it.
C3_Witness ==
    \E c \in ClientIds :
        /\ response.op = "register_init"
        /\ response.status = "OK"
        /\ response.client_id = c
        /\ RegState(c) = "KeyIssued"
        /\ server_keys[c].public_key = 2
        /\ DOMAIN server_keys = {c}

\* C4 as stated: once a ServerKeyEntry exists for a client_id no operation replaces
\* it, and a register_init for such a client_id is rejected.
C4_Original ==
    [][\A c \in DOMAIN server_keys :
         /\ c \in DOMAIN server_keys'
         /\ server_keys'[c] = server_keys[c]
         /\ (response'.op = "register_init" /\ response'.client_id = c)
              => response'.status = "CONFLICT"]_vars

\* C4 amended: once a ClientEntry exists for a client_id, no init or complete
\* replaces the ServerKeyEntry of that client_id and a register_init for it is
\* rejected with CONFLICT; a register_init for a client_id that only has a
\* ServerKeyEntry is accepted and replaces that entry.
C4_KeyFixedOnceRegistered ==
    [][\A c \in ClientIds :
         /\ c \in DOMAIN client_config
            => /\ c \in DOMAIN server_keys
               /\ c \in DOMAIN server_keys'
               /\ server_keys'[c] = server_keys[c]
               /\ (response'.op = "register_init" /\ response'.client_id = c)
                    => response'.status = "CONFLICT"
         /\ (RegState(c) = "KeyIssued" /\ response'.op = "register_init"
               /\ response'.client_id = c)
            => /\ response'.status = "OK"
               /\ server_keys'[c] # server_keys[c]]_vars

\* C4 witness: a registered client whose key was regenerated before it completed,
\* and whose later register_init was rejected.
C4_Witness ==
    \E c \in DOMAIN client_config :
        /\ response.op = "register_init"
        /\ response.status = "CONFLICT"
        /\ response.client_id = c
        /\ server_keys[c].public_key = 2
        /\ keygen = 2

\* C5: every client_id with a ClientEntry has a ServerKeyEntry; a register_client
\* that returned none left no ClientEntry for its client_id; no step removes a
\* ServerKeyEntry.
C5_ClientEntryHasServerKey ==
    /\ [](/\ \A c \in DOMAIN client_config : c \in DOMAIN server_keys
          /\ (response.op = "register_client" /\ response.entry = None)
               => response.client_id \notin DOMAIN client_config)
    /\ [][DOMAIN server_keys \subseteq DOMAIN server_keys']_vars

\* C5 witness: register_client returned none for a client without a server key
\* while another client is registered.
C5_Witness ==
    /\ response.op = "register_client"
    /\ response.entry = None
    /\ response.client_id \notin DOMAIN server_keys
    /\ client_config # Empty

\* C6: the registration state of a client_id only advances along
\* Unregistered -> KeyIssued -> Registered, one step at a time.
C6_RegistrationOnlyAdvances ==
    [][\A c \in ClientIds :
         <<RegState(c), RegState(c)'>> \in
            { <<"Unregistered", "Unregistered">>, <<"Unregistered", "KeyIssued">>,
              <<"KeyIssued", "KeyIssued">>, <<"KeyIssued", "Registered">>,
              <<"Registered", "Registered">> }]_vars

\* C6 witness: one client is Registered, the other is KeyIssued.
C6_Witness ==
    \E c, d \in ClientIds :
        /\ RegState(c) = "Registered"
        /\ RegState(d) = "KeyIssued"
        /\ response.op = "register_complete"
        /\ response.status = "OK"

(***************************************************************************)
(* Session store: properties.                                              *)
(***************************************************************************)
\* C17: SessionStore::validate(token) returns none and leaves the store unchanged
\* when no session is stored under the token; removes the session and returns none
\* when the stored session is expired at the clock reading of the check; and
\* otherwise returns that stored session.  A session it returns is not expired at
\* that reading.
C17_ValidateOutcomes ==
    [][response'.op = "verify" =>
         LET k == response'.api_key IN
         IF k \notin DOMAIN sessions
         THEN response'.session = None /\ sessions' = sessions
         ELSE IF now > sessions[k].expires_at
         THEN /\ response'.session = None
              /\ k \notin DOMAIN sessions'
              /\ \A x \in DOMAIN sessions \ {k} :
                    x \in DOMAIN sessions' /\ sessions'[x] = sessions[x]
         ELSE /\ response'.session # None
              /\ Unwrap(response'.session).api_key = k
              /\ Unwrap(response'.session).id = sessions[k].id
              /\ Unwrap(response'.session).expires_at = sessions[k].expires_at
              /\ now <= Unwrap(response'.session).expires_at
              /\ sessions'[k] = Unwrap(response'.session)]_vars

\* a validate that found its session expired and removed it, while another
\* session stayed stored
C17_Witness ==
    /\ response.op = "verify"
    /\ ~response.valid
    /\ response.api_key \in 1..tokgen
    /\ response.api_key \notin DOMAIN sessions
    /\ now > SessionTtl
    /\ DOMAIN sessions # {}

\* C18, as stated: a validate of a live session strictly increases that session's
\* last_seen and changes no other field of it and no other session.
C18_Original ==
    [][(response'.op = "verify" /\ response'.valid) =>
         LET k == response'.api_key IN
         /\ sessions'[k].last_seen > sessions[k].last_seen
         /\ sessions' = [sessions EXCEPT ![k].last_seen = sessions'[k].last_seen]]_vars

\* C18, amended: a validate of a live session sets that session's last_seen to the
\* clock reading of touch, which is never earlier than the value it replaces and is
\* later exactly when the clock has advanced since that value was written; no other
\* field of the session and no other session changes.
C18_TouchSetsLastSeen ==
    [][(response'.op = "verify" /\ response'.valid) =>
         LET k == response'.api_key IN
         /\ sessions'[k].last_seen = now'
         /\ sessions'[k].last_seen >= sessions[k].last_seen
         /\ (sessions'[k].last_seen > sessions[k].last_seen) <=> (now' > sessions[k].last_seen)
         /\ sessions' = [sessions EXCEPT ![k].last_seen = now']]_vars

\* a validate moved last_seen forward while a second session was stored
C18_Witness ==
    /\ response.op = "verify"
    /\ response.valid
    /\ sessions[response.api_key].last_seen > sessions[response.api_key].created_at
    /\ Cardinality(DOMAIN sessions) = 2

C19_ExpiresNotBeforeCreated ==
    \A k \in DOMAIN sessions : sessions[k].expires_at >= sessions[k].created_at

(***************************************************************************)
(* Federation endpoints and sync service: properties.                      *)
(***************************************************************************)
\* C11: a federation operation (register_server, sync_servers, list_all_servers,
\* server_stats) is carried out only for a caller that holds a live session; in
\* particular it is carried out only while the session store holds a session
\* that validate would accept.
C11_FederationNeedsSession ==
    [][(/\ response'.op \in {"register_server", "sync_servers", "list_all_servers",
                             "server_stats"}
        /\ response'.status = "OK")
       => \E k \in DOMAIN sessions : ~is_expired(sessions[k], now)]_vars

\* the server ids of list_authenticated()
AuthenticatedIds(current) == { e.server_id : e \in list_authenticated(current) }

\* C12, as stated: a cycle sends a request to exactly the peers list_authenticated()
\* holds when the cycle starts, to each once: the peers still to be contacted are
\* that list at the start, every request goes to one of them and takes exactly that
\* peer off, whether it succeeds or fails, and the cycle ends only when none is left.
C12_Original ==
    [][/\ response'.op = "sync_all_servers" =>
            /\ sync_pc = "idle"
            /\ sync_pending' = AuthenticatedIds(servers)
            /\ sync_pc' = IF sync_pending' = {} THEN "idle" ELSE "syncing"
       /\ response'.op = "sync_with_server" =>
            /\ sync_pc = "syncing"
            /\ response'.server_id \in sync_pending
            /\ sync_pending' = sync_pending \ {response'.server_id}
            /\ sync_pc' = IF sync_pending' = {} THEN "idle" ELSE "syncing"
       /\ response'.op \notin {"sync_all_servers", "sync_with_server"} =>
            UNCHANGED <<sync_pc, sync_pending>>]_vars

\* C12, amended: as stated for a cycle whose HTTP client could be built; a cycle
\* whose client cannot be built returns an error before its loop and contacts no
\* peer at all.
C12_CycleContactsSnapshotOnce ==
    [][/\ response'.op = "sync_all_servers" =>
            /\ sync_pc = "idle"
            /\ response'.ok => sync_pending' = AuthenticatedIds(servers)
            /\ ~response'.ok => (sync_pending' = {} /\ AuthenticatedIds(servers) # {})
            /\ sync_pc' = IF sync_pending' = {} THEN "idle" ELSE "syncing"
            /\ servers' = servers
       /\ response'.op = "sync_with_server" =>
            /\ sync_pc = "syncing"
            /\ response'.server_id \in sync_pending
            /\ sync_pending' = sync_pending \ {response'.server_id}
            /\ sync_pc' = IF sync_pending' = {} THEN "idle" ELSE "syncing"
       /\ response'.op \notin {"sync_all_servers", "sync_with_server"} =>
            UNCHANGED <<sync_pc, sync_pending>>]_vars

\* a cycle over two peers is in progress: the request to one peer has failed and
\* the other peer is still to be contacted
C12_Witness ==
    /\ response.op = "sync_with_server"
    /\ ~response.ok
    /\ sync_pc = "syncing"
    /\ sync_pending # {}
    /\ response.server_id \notin sync_pending

\* C13: for each contacted peer: when the request succeeds the returned list is
\* merged (entries under unknown ids are inserted as received, as many as the call
\* reports, and no stored entry is replaced) and the peer's last_sync is set to the
\* current time, no other field of a stored entry changing; when the request fails
\* the registry is left exactly as it was.
C13_SyncWithServerEffect ==
    [][response'.op = "sync_with_server" =>
         LET peer == response'.server_id IN
         IF response'.ok
         THEN /\ DOMAIN servers \subseteq DOMAIN servers'
              /\ Cardinality(DOMAIN servers' \ DOMAIN servers) = response'.added
              /\ \A s \in DOMAIN servers' \ DOMAIN servers :
                    servers'[s] \in { Unwrap(ParseServerEntry(w)) : w \in WireEntries }
                       /\ servers'[s].server_id = s
              /\ \A s \in DOMAIN servers :
                    servers'[s] = IF s = peer
                                  THEN [servers[s] EXCEPT !.last_sync = Some(now)]
                                  ELSE servers[s]
         ELSE /\ servers' = servers
              /\ response'.added = 0]_vars

\* a successful request added an entry and stamped the peer
C13_Witness ==
    /\ response.op = "sync_with_server"
    /\ response.ok
    /\ response.added = 1
    /\ response.server_id \in DOMAIN servers
    /\ servers[response.server_id].last_sync = Some(now)
    /\ \E s \in DOMAIN servers : servers[s].name = "gossip"

\* C14: when this backend syncs against a backend that has it registered and
\* authenticated, the peer's response (its list_public() in the PublicServerInfo
\* shape) is accepted as a success, and afterwards every server_id of the peer's
\* list_public() is in this backend's registry.
C14_BackendsInteroperate ==
    [][\A s \in ServerIds, current \in PeerRegistries :
         current[OurServerId].is_authenticated =>
           \A answer \in sync_servers_wire(current, OurSyncRequest) :
             \A saves \in [1..Len(answer.servers) -> BOOLEAN] :
               sync_all_servers_step(s, answer, saves) =>
                 /\ response'.ok
                 /\ \A e \in list_public(current) : e.server_id \in DOMAIN servers']_vars

\* C15: a sync request that is answered successfully makes the responder set the
\* requester's last_sync to the current time; no other field of the requester's
\* entry and no other entry of the responder's registry changes.
C15_ResponderMarksRequester ==
    [][(response'.op = "sync_servers" /\ response'.status = "OK") =>
         LET id == response'.requesting_server_id IN
         /\ id \in DOMAIN servers
         /\ servers' = [servers EXCEPT ![id].last_sync = Some(now)]]_vars

\* a later sync request replaced the time of an earlier one while a second entry
\* was registered
C15_Witness ==
    /\ response.op = "sync_servers"
    /\ response.status = "OK"
    /\ now > 1
    /\ servers[response.requesting_server_id].last_sync = Some(now)
    /\ servers[response.requesting_server_id].last_seen # Some(now)
    /\ Cardinality(DOMAIN servers) = 2

C21_RevokeRemoves ==
    [][response'.op = "logout" =>
         LET k == response'.api_key IN
         /\ response'.success <=> (k \in DOMAIN sessions)
         /\ k \notin DOMAIN sessions'
         /\ DOMAIN sessions' = DOMAIN sessions \ {k}
         /\ \A x \in DOMAIN sessions' : sessions'[x] = sessions[x]
         /\ session_get(sessions', k) = None
         /\ \A t \in now'..MaxTime :
               /\ session_validate(sessions', k, t, t).session = None
               /\ session_validate(sessions', k, t, t).sessions = sessions']_vars

\* a revoke removed a session after the time at which the first sessions expire,
\* and another session stayed stored
C21_Witness ==
    /\ response.op = "logout"
    /\ response.success
    /\ response.api_key \notin DOMAIN sessions
    /\ now > SessionTtl
    /\ DOMAIN sessions # {}

WellFormedKeyPayload(msg) ==
    /\ msg.ciphertext.b64
    /\ Len(msg.ciphertext.bytes) = KeyLen
    /\ \A i \in 1..KeyLen :
          msg.ciphertext.bytes[i] \in (48..57) \cup (65..70) \cup (97..102)

\* C23: a register_complete for a KeyIssued client with a well-formed payload stores
\* a ClientEntry for that client whose client_public_key is the decoded key, and
\* creates exactly one new session, whose api_key is the one returned.
C23_CompleteRegisters ==
    [][\A c \in ClientIds, msg \in Payloads :
         (/\ register_complete(c, msg)
          /\ RegState(c) = "KeyIssued"
          /\ WellFormedKeyPayload(msg))
         => /\ response'.status = "OK"
            /\ c \in DOMAIN client_config'
            /\ client_config'[c].client_id = c
            /\ client_config'[c].client_public_key = msg.ciphertext.bytes
            /\ DOMAIN sessions' \ DOMAIN sessions = {response'.api_key}
            /\ sessions'[response'.api_key].api_key = response'.api_key
            /\ \A k \in DOMAIN sessions : k \in DOMAIN sessions' /\ sessions'[k] = sessions[k]]_vars

\* a client was registered with the second sample key and holds the session returned
C23_Witness ==
    /\ response.op = "register_complete"
    /\ response.status = "OK"
    /\ client_config[response.client_id].client_public_key = Rep(KeyLen, 98)
    /\ response.api_key \in DOMAIN sessions

\* C24: a register_complete whose payload fails validation (not base64, not UTF-8,
\* not exactly 64 hex characters) is rejected with a client error (BAD_REQUEST when
\* the client has a server key, NOT_FOUND when it has none) and changes nothing:
\* the client entries, the server keys and the sessions stay as they were.
C24_InvalidPayloadRejected ==
    [][\A c \in ClientIds, msg \in Payloads :
         (register_complete(c, msg) /\ ~WellFormedKeyPayload(msg))
         => /\ response'.status =
                  IF c \in DOMAIN server_keys THEN "BAD_REQUEST" ELSE "NOT_FOUND"
            /\ UNCHANGED <<client_config, server_keys, sessions, tokgen, keygen>>]_vars

\* a payload was rejected for a client that is registered, next to a client whose
\* registration is pending
C24_Witness ==
    /\ response.op = "register_complete"
    /\ response.status = "BAD_REQUEST"
    /\ RegState(response.client_id) = "Registered"
    /\ \E d \in ClientIds : RegState(d) = "KeyIssued"

(***************************************************************************)
(* Key exchange endpoints and cryptographic services: properties.          *)
(***************************************************************************)
\* a string of exactly 64 characters, each a hexadecimal digit
IsHex64(s) ==
    /\ Len(s) = 64
    /\ \A i \in 1..Len(s) : s[i] \in (48..57) \cup (65..70) \cup (97..102)

\* C25: public key validation accepts exactly the strings of 64 hexadecimal
\* characters: parse_public_key and the check of register_complete reject every
\* other length (63 characters for one) and every string with another character,
\* and a key_exchange whose key is rejected answers BAD_REQUEST and creates no session.
C25_KeyValidation ==
    [][response'.op = "key_exchange" =>
         LET k == response'.client_public_key IN
         /\ parse_public_key(k).ok <=> IsHex64(k)
         /\ ValidClientPublicKey(k) <=> IsHex64(k)
         /\ ~IsHex64(k) => /\ response'.status = "BAD_REQUEST"
                           /\ sessions' = sessions
                           /\ tokgen' = tokgen
         /\ IsHex64(k) => response'.status = "OK"]_vars

\* a key of 66 hexadecimal characters was rejected while a session of an earlier
\* exchange is stored
C25_Witness ==
    /\ response.op = "key_exchange"
    /\ response.status = "BAD_REQUEST"
    /\ Len(response.client_public_key) = KeyLen + 2
    /\ sessions # Empty

\* C26: an admin_login with a key other than the server's admin key answers
\* Unauthorized and creates no session; a login with the admin key creates one
\* ordinary session whose lifetime is 24 times the configured base TTL, whatever the
\* base TTL is.
C26_AdminSessionTtl ==
    [][response'.op = "admin_login" =>
         IF response'.admin_key # admin_key
         THEN /\ response'.status = "UNAUTHORIZED"
              /\ sessions' = sessions
         ELSE /\ response'.status = "OK"
              /\ \E k \in DOMAIN sessions' \ DOMAIN sessions :
                    /\ DOMAIN sessions' = DOMAIN sessions \cup {k}
                    /\ sessions'[k].expires_at - sessions'[k].created_at
                          = 24 * response'.session_ttl_secs]_vars

\* the request of a send_encrypted passed the key check and failed in decrypt
DecryptFailed(r) ==
    /\ r.op = "send_encrypted"
    /\ parse_public_key(r.client_public_key).ok
    /\ ~decrypt(r.request,
                server_derive_shared_secret(server_keypair,
                                            parse_public_key(r.client_public_key).bytes)).ok

\* C27: every failure of decrypt in send_encrypted (a nonce that is not base64 or
\* has the wrong length, a ciphertext that is not base64, a tampered ciphertext, a
\* wrong key) gives the caller the same answer and releases no plaintext: two
\* requests that both fail in decrypt are answered with the same status and body.
C27_UniformDecryptError ==
    [][(DecryptFailed(response) /\ DecryptFailed(response')) =>
         /\ response'.status = response.status
         /\ response'.body = response.body
         /\ "payload" \notin DOMAIN response']_vars

\* C28: Diffie-Hellman commutes: for any two keypairs A and B, the shared secret
\* derived from A's secret and B's public key equals the one derived from B's
\* secret and A's public key.
C28_SharedSecretAgrees ==
    [][response'.op = "derive" =>
         /\ response'.server_shared = response'.client_shared
         /\ Len(response'.server_shared) = KeyBytes]_vars

\* two different keypairs derived one shared secret that is not the neutral element
C28_Witness ==
    /\ response.op = "derive"
    /\ response.server_secret # response.client_secret
    /\ response.server_shared = response.client_shared
    /\ response.server_shared[1] > 1

\* C29: decrypt undoes encrypt under the same key and fails under any other key:
\* decrypt(encrypt(m, k), k) is m, and decrypt(encrypt(m, k1), k2) fails for k1 # k2.
C29_RoundTrip ==
    [][response'.op = "decrypt" =>
         IF response'.key = response'.sealed_with
         THEN /\ response'.result.ok
              /\ response'.result.plaintext = response'.plaintext
         ELSE /\ ~response'.result.ok
              /\ response'.result.plaintext = <<>>]_vars

\* the message "hi" came back from decrypt under the key it was encrypted with
C29_Witness ==
    /\ response.op = "decrypt"
    /\ response.key = response.sealed_with
    /\ response.result.ok
    /\ response.result.plaintext = <<104, 105>>

StoreWrites ==
    {"register", "remove", "set_authenticated", "touch", "mark_synced", "merge_from",
     "generate_server_key_for_client", "register_client"}

\* C31: when a store write returns and its persistence has succeeded, the entry in
\* memory and the record in the files agree for every key the call wrote, whatever
\* the interleaving of the concurrent writers
C31_MemoryAgreesWithFiles ==
    [][(response'.op \in StoreWrites /\ response'.saved = "ok")
        => \A k \in response'.keys :
              StoreGet(StoreMemory'[response'.store], k) = StoreGet(disk'[response'.store], k)]_vars

\* C32: when the persistence write of a store write fails, the mutation is applied in
\* memory all the same and the call does not report the failure
C32_FailedWriteInvisible ==
    [][(response'.op \in StoreWrites /\ response'.saved = "failed")
        => /\ response'.ok
           /\ \A e \in response'.expected :
                 StoreGet(StoreMemory'[response'.store], e[1]) = e[2]]_vars

(***************************************************************************)
(* Sync service: termination of a cycle.                                   *)
(***************************************************************************)
\* C33: every sync cycle that starts finishes, also when peers do not answer: each
\* request ends, with an answer or with the failure the client's timeout makes of
\* it, and the cycle goes on to the next peer until none is left
C33_CycleFinishes == (sync_pc = "syncing") ~> (sync_pc = "idle")

\* a cycle has finished with a request that failed
C33_Witness ==
    /\ sync_pc = "idle"
    /\ sync_pending = {}
    /\ response.op = "sync_with_server"
    /\ ~response.ok

(***************************************************************************)
(* Registration handshake with overlapping requests: properties.           *)
(***************************************************************************)
\* C34: under any interleaving of register_init and register_complete requests
\* for one client_id, once a ClientEntry exists for the client_id its
\* ServerKeyEntry is never replaced: no register_complete finishes between the
\* existence check of a register_init and its key generation
C34_KeyFixedUnderInterleaving ==
    [][\A c \in DOMAIN client_config :
          c \in DOMAIN server_keys' /\ server_keys'[c] = server_keys[c]]_vars

\* C35: a register_complete for a client that has a ServerKeyEntry succeeds with
\* every well-formed payload, registered already or not: it puts a ClientEntry
\* with the decoded key and the current time in the place of the one stored,
\* leaves the entries of other clients and the server keys alone, and issues a
\* session under a new api_key while every earlier session stays as it was.
C35_RepeatedCompleteReplaces ==
    [][\A c \in ClientIds, msg \in Payloads :
         (/\ response'.op = "register_complete"
          /\ c \in DOMAIN server_keys
          /\ WellFormedKeyPayload(msg)
          /\ register_complete(c, msg))
         => /\ response'.status = "OK"
            /\ client_config' =
                  Put(client_config, c,
                      [client_id |-> c, client_public_key |-> msg.ciphertext.bytes,
                       server_key_id |-> c, registered_at |-> now, last_seen |-> Some(now)])
            /\ server_keys' = server_keys
            /\ response'.api_key \notin DOMAIN sessions
            /\ response'.api_key \in DOMAIN sessions'
            /\ \A k \in DOMAIN sessions : k \in DOMAIN sessions' /\ sessions'[k] = sessions[k]]_vars

\* one client completed twice on one server key: its entry holds the key of the
\* last payload and the sessions of both completions are stored
C35_Witness ==
    /\ response.op = "register_complete"
    /\ response.status = "OK"
    /\ DOMAIN client_config = {response.client_id}
    /\ client_config[response.client_id].client_public_key = Rep(KeyLen, 98)
    /\ Cardinality(DOMAIN sessions) = 2
    /\ keygen = 1

(***************************************************************************)
(* Federation endpoints: re-registration and the sync responder.           *)
(***************************************************************************)
\* C36: a register_server for a server_id that is in the registry leaves a fresh
\* entry under that id, whatever the entry before held: not authenticated, trust
\* level 50, no last_seen and no last_sync, discovered at the time of the request
C36_ReRegistrationReplaces ==
    [][(response'.op = "register_server" /\ response'.server_id \in DOMAIN servers)
        => LET e == servers'[response'.server_id] IN
           /\ ~e.is_authenticated
           /\ e.trust_level = DefaultTrust
           /\ e.last_seen = None
           /\ e.last_sync = None
           /\ e.discovered_at = now]_vars

\* C37: what the sync responder decides and answers depends on the
\* requesting_server_id and the registry only: a step the handler takes for one
\* request is a step it takes for every request with the same requesting_server_id
\* and any other requesting_server_key (the same answer, the same registry after)
C37_KeyNeverCompared ==
    [][response'.op = "sync_servers" =>
         \A r1 \in SyncRequests, r2 \in SyncRequests, save_ok \in BOOLEAN :
           (/\ r1.requesting_server_id = response'.requesting_server_id
            /\ r2.requesting_server_id = r1.requesting_server_id
            /\ r2.requesting_server_key # r1.requesting_server_key
            /\ sync_servers(r1, save_ok))
           => sync_servers(r2, save_ok)]_vars

\* a requester whose stored public_key is "pk" was answered with both entries of
\* the registry; requests with the key "pk" and with the key "other" lead here
C37_Witness ==
    /\ response.op = "sync_servers"
    /\ response.status = "OK"
    /\ response.total = 2
    /\ servers[response.requesting_server_id].public_key = "pk"
    /\ servers[response.requesting_server_id].last_sync = Some(now)

\* C38: a sync request that is rejected, its requester unknown or not
\* authenticated, leaves the registry of the responder exactly as it was: no entry
\* appears for the requester and no last_sync or last_seen is set
C38_RejectedSyncChangesNothing ==
    [][(response'.op = "sync_servers" /\ response'.status = "UNAUTHORIZED")
        => servers' = servers]_vars

\* a registered requester that is not authenticated was rejected at a later time
\* than its registration and carries no time of a sync or of a contact
C38_Witness ==
    /\ response.op = "sync_servers"
    /\ response.status = "UNAUTHORIZED"
    /\ response.requesting_server_id \in DOMAIN servers
    /\ now > servers[response.requesting_server_id].discovered_at
    /\ servers[response.requesting_server_id].last_sync = None
    /\ servers[response.requesting_server_id].last_seen = None

(***************************************************************************)
(* Session store: the times of a session.                                  *)
(***************************************************************************)
\* C39: every stored session has created_at <= last_seen <= expires_at in every
\* reachable state, and the last_seen of a session that stays stored never
\* decreases
C39_SessionTimesOrdered ==
    /\ [](\A k \in DOMAIN sessions :
             /\ sessions[k].created_at <= sessions[k].last_seen
             /\ sessions[k].last_seen <= sessions[k].expires_at)
    /\ [][\A k \in DOMAIN sessions \cap DOMAIN sessions' :
             sessions[k].last_seen <= sessions'[k].last_seen]_vars

====
